---- MODULE Spec2Model ----
(***************************************************************************)
(* Segment filter DSL and its evaluation engine, and the session storage.  *)
(*                                                                         *)
(*   server/types/segment.types.ts              FieldTypeMap,              *)
(*                                              validateOperatorForField,  *)
(*                                              parseRelativeDate          *)
(*   server/services/segment/evaluator.service.ts                          *)
(*                                              conditionToPrisma,         *)
(*                                              filterGroupToPrisma,       *)
(*                                              filtersToPrismaWhere,      *)
(*                                              evaluateSegment,           *)
(*                                              countMatchingCustomers,    *)
(*                                              previewSegmentCustomers,   *)
(*                                              validateFiltersExecutable, *)
(*                                              diffEvaluations            *)
(*   unnamed/part_000 (session service)         storeSession,              *)
(*                                              loadSession,               *)
(*                                              deleteSession              *)
(*                                                                         *)
(* JavaScript values are tagged records, strings are sequences of          *)
(* one-character strings (so that the regular expression of                *)
(* parseRelativeDate is matched character by character), and a Date is a   *)
(* calendar record year / month (0-based, as in JS) / day / hour.  The     *)
(* part of a Date below the hour is changed by no operation of the code    *)
(* and is left out; the server's time zone is taken to be UTC.             *)
(***************************************************************************)
EXTENDS Integers, Sequences, FiniteSets, TLC

VARIABLES
    now,          \* the wall clock read by new Date()
    tenantId,     \* argument of evaluateSegment / count / preview
    filters,      \* argument: the SegmentFilters value (a sequence of groups)
    limit,        \* argument of previewSegmentCustomers
    store,        \* the customer table of the persistence engine
    op,           \* which exported function is running / has run
    pc,           \* its position
    whereClause,  \* the predicate built by filtersToPrismaWhere
    customers,    \* what findMany resolved to, or NotRead
    aggregates,   \* what aggregate / count resolved to, or NotRead
    result,       \* the value the function returned, or the error it threw
    validation,   \* what validateFiltersExecutable returned
    diff,         \* what diffEvaluations returned
    previous,     \* argument of diffEvaluations: the older snapshot's customerIds
    current,      \* argument of diffEvaluations: the newer snapshot's customerIds
    dateParser,   \* how the runtime's Date reads text that is not in the ISO format
    dateValue,    \* argument of parseRelativeDate
    resolved,     \* the Date parseRelativeDate returned
    fieldArg,     \* argument of validateOperatorForField
    operatorArg,  \* argument of validateOperatorForField
    allowed,      \* what validateOperatorForField returned
    parsed,       \* what validateSegmentFilters returned
    sessions,     \* the session table of the persistence engine
    sessionId,    \* argument of loadSession
    session       \* what findUnique resolved to in loadSession

vars == <<now, tenantId, filters, limit, store, op, pc, whereClause,
          customers, aggregates, result, validation, diff, previous, current,
          dateParser, dateValue, resolved, fieldArg, operatorArg, allowed, parsed,
          sessions, sessionId, session>>

\* the state of the session storage
sessionState == <<sessions, sessionId, session>>

\* arguments and results of the helpers that are called on their own
helpers == <<dateValue, resolved, fieldArg, operatorArg, allowed, parsed>>

-----------------------------------------------------------------------------
(* Bounds of the model *)

\* groups per SegmentFilters value in the composed inputs
MaxGroups == 2
\* conditions per SegmentFilters value (summed over its groups) in the composed inputs
MaxConditions == 2
\* length of a customerIds list handed to diffEvaluations
MaxIds == 3
\* largest limit handed to previewSegmentCustomers
MaxLimit == 2

\* largest amount of a relative date handed to parseRelativeDate
MaxAmount == 45

-----------------------------------------------------------------------------
(* JavaScript values *)

Undefined == [k |-> "undefined"]
Null == [k |-> "null"]
Num(n) == [k |-> "number", n |-> n]
Str(s) == [k |-> "string", s |-> s]
Bool(b) == [k |-> "boolean", b |-> b]
Arr(items) == [k |-> "array", items |-> items]
DateOf(y, mo, d, h) == [k |-> "date", valid |-> TRUE, y |-> y, mo |-> mo, d |-> d, h |-> h]
InvalidDate == [k |-> "date", valid |-> FALSE, y |-> 0, mo |-> 0, d |-> 0, h |-> 0]

\* typeof value === 'string'
IsString(v) == v.k = "string"
\* Array.isArray(value)
IsArray(v) == v.k = "array"

-----------------------------------------------------------------------------
(* The Date object: calendar arithmetic of setDate / setHours / setMonth *)

IsLeap(y) == (y % 4 = 0) /\ ((y % 100 # 0) \/ (y % 400 = 0))

DaysInMonth(y, mo) ==
    CASE mo \in {0, 2, 4, 6, 7, 9, 11} -> 31
      [] mo \in {3, 5, 8, 10} -> 30
      [] OTHER -> IF IsLeap(y) THEN 29 ELSE 28

RECURSIVE NormDay(_, _, _, _)
\* a day number outside the month is carried into the neighbouring months
NormDay(y, mo, d, h) ==
    IF d < 1
    THEN LET py == IF mo = 0 THEN y - 1 ELSE y
             pm == IF mo = 0 THEN 11 ELSE mo - 1
         IN NormDay(py, pm, d + DaysInMonth(py, pm), h)
    ELSE IF d > DaysInMonth(y, mo)
    THEN LET ny == IF mo = 11 THEN y + 1 ELSE y
             nm == IF mo = 11 THEN 0 ELSE mo + 1
         IN NormDay(ny, nm, d - DaysInMonth(y, mo), h)
    ELSE DateOf(y, mo, d, h)

\* MakeDay / MakeTime of the Date object: the month is normalised into the
\* year first, the hour into the day, and the day number is then carried
MakeDate(y, mo, d, h) ==
    NormDay(y + (mo \div 12), mo % 12, d + (h \div 24), h % 24)

setDate(date, n) == MakeDate(date.y, date.mo, n, date.h)
setHours(date, n) == MakeDate(date.y, date.mo, date.d, n)
setMonth(date, n) == MakeDate(date.y, n, date.d, date.h)

\* date comparison as the engine orders timestamps
DateLeq(a, b) ==
    \/ a.y < b.y
    \/ a.y = b.y /\ a.mo < b.mo
    \/ a.y = b.y /\ a.mo = b.mo /\ a.d < b.d
    \/ a.y = b.y /\ a.mo = b.mo /\ a.d = b.d /\ a.h <= b.h

-----------------------------------------------------------------------------
(* Strings *)

Digits == {"0", "1", "2", "3", "4", "5", "6", "7", "8", "9"}

DigitVal(c) ==
    CASE c = "0" -> 0 [] c = "1" -> 1 [] c = "2" -> 2 [] c = "3" -> 3
      [] c = "4" -> 4 [] c = "5" -> 5 [] c = "6" -> 6 [] c = "7" -> 7
      [] c = "8" -> 8 [] c = "9" -> 9

AllDigits(s) == \A i \in 1..Len(s) : s[i] \in Digits

RECURSIVE DecimalValue(_)
DecimalValue(s) ==
    IF s = <<>> THEN 0
    ELSE 10 * DecimalValue(SubSeq(s, 1, Len(s) - 1)) + DigitVal(s[Len(s)])

\* parseInt(text, 10) of a text the pattern (-?\d+) matched
parseInt(s) ==
    IF s[1] = "-" THEN 0 - DecimalValue(Tail(s)) ELSE DecimalValue(s)

\* value.match(/^(-?\d+)([dhm])$/) is not null
RelativeMatch(s) ==
    /\ Len(s) >= 2
    /\ s[Len(s)] \in {"d", "h", "m"}
    /\ LET body == SubSeq(s, 1, Len(s) - 1)
           digits == IF body[1] = "-" THEN Tail(body) ELSE body
       IN Len(digits) >= 1 /\ AllDigits(digits)

\* Date.parse reads the ISO format; for any other text the language leaves
\* it to the runtime whether it falls back to formats of its own
DateParsers == {"strict", "legacy"}

\* the text has the shape YYYY-MM-DDTHH:00:00Z
IsoShape(s) ==
    /\ Len(s) = 20
    /\ AllDigits(SubSeq(s, 1, 4)) /\ s[5] = "-"
    /\ AllDigits(SubSeq(s, 6, 7)) /\ s[8] = "-"
    /\ AllDigits(SubSeq(s, 9, 10)) /\ s[11] = "T"
    /\ AllDigits(SubSeq(s, 12, 13))
    /\ SubSeq(s, 14, 20) = <<":", "0", "0", ":", "0", "0", "Z">>

\* the text has the shape YYYY/MM/DD
SlashShape(s) ==
    /\ Len(s) = 10
    /\ AllDigits(SubSeq(s, 1, 4)) /\ s[5] = "/"
    /\ AllDigits(SubSeq(s, 6, 7)) /\ s[8] = "/"
    /\ AllDigits(SubSeq(s, 9, 10))

\* what a runtime with a fallback makes of text that is not in the ISO format:
\* YYYY/MM/DD of a real calendar date is read as that day, 00:00
LegacyDate(s) ==
    IF SlashShape(s)
    THEN LET y == DecimalValue(SubSeq(s, 1, 4))
             m == DecimalValue(SubSeq(s, 6, 7))
             d == DecimalValue(SubSeq(s, 9, 10))
         IN IF m \in 1..12 /\ d >= 1 /\ d <= DaysInMonth(y, m - 1)
            THEN DateOf(y, m - 1, d, 0)
            ELSE InvalidDate
    ELSE InvalidDate

\* new Date(value) for a string: the ISO form YYYY-MM-DDTHH:00:00Z of a real
\* calendar date is read as that instant; other text gives an Invalid Date,
\* or what the runtime's fallback makes of it
DateFromString(s) ==
    IF IsoShape(s)
    THEN LET y == DecimalValue(SubSeq(s, 1, 4))
             m == DecimalValue(SubSeq(s, 6, 7))
             d == DecimalValue(SubSeq(s, 9, 10))
             h == DecimalValue(SubSeq(s, 12, 13))
         IN IF m \in 1..12 /\ h \in 0..23 /\ d >= 1 /\ d <= DaysInMonth(y, m - 1)
            THEN DateOf(y, m - 1, d, h)
            ELSE InvalidDate
    ELSE IF dateParser = "legacy" THEN LegacyDate(s) ELSE InvalidDate

\* a variant that reads the unit m as minutes
parseRelativeDateMinutes(s, t) ==
    IF ~RelativeMatch(s)
    THEN DateFromString(s)
    ELSE LET amount == parseInt(SubSeq(s, 1, Len(s) - 1))
             unit == s[Len(s)]
         IN CASE unit = "d" -> setDate(t, t.d + amount)
              [] unit = "h" -> setHours(t, t.h + amount)
              [] unit = "m" -> setHours(t, t.h + (amount \div 60))

\* parseRelativeDate(value), evaluated when the clock shows t
parseRelativeDate(s, t) ==
    IF ~RelativeMatch(s)
    THEN DateFromString(s)
    ELSE LET amount == parseInt(SubSeq(s, 1, Len(s) - 1))
             unit == s[Len(s)]
         IN CASE unit = "d" -> setDate(t, t.d + amount)
              [] unit = "h" -> setHours(t, t.h + amount)
              [] unit = "m" -> setMonth(t, t.mo + amount)

-----------------------------------------------------------------------------
(* Fields and operators (segment.types.ts) *)

FilterOperator ==
    {"eq", "neq", "gt", "gte", "lt", "lte", "in", "notIn", "between",
     "contains", "isNull", "isNotNull"}

FieldTypeMap ==
    [f \in {"email", "firstName", "lastName", "phone"} |-> "string"]
    @@ [f \in {"totalSpent", "ordersCount", "avgOrderValue", "daysSinceLastOrder",
               "recencyScore", "frequencyScore", "monetaryScore"} |-> "number"]
    @@ [f \in {"lastOrderDate", "firstOrderDate", "shopifyCreatedAt", "createdAt"} |-> "date"]
    @@ [f \in {"isHighValue", "isChurnRisk", "hasAbandonedCart"} |-> "boolean"]
    @@ [f \in {"rfmSegment"} |-> "enum"]

FilterableField == DOMAIN FieldTypeMap

\* FieldTypeMap[field]: undefined for a key the object does not have
FieldType(field) ==
    IF field \in DOMAIN FieldTypeMap THEN FieldTypeMap[field] ELSE "undefined"

\* a variant that takes between for a universal operator
validateOperatorForFieldBetweenAnywhere(field, operator) ==
    LET fieldType == FieldType(field)
        universalOps == {"eq", "neq", "in", "notIn", "isNull", "isNotNull", "between"}
    IN IF operator \in universalOps THEN TRUE
       ELSE CASE fieldType \in {"number", "date"} ->
                     operator \in {"gt", "gte", "lt", "lte"}
              [] fieldType = "string" -> operator \in {"contains"}
              [] OTHER -> FALSE

validateOperatorForField(field, operator) ==
    LET fieldType == FieldType(field)
        universalOps == {"eq", "neq", "in", "notIn", "isNull", "isNotNull"}
    IN IF operator \in universalOps THEN TRUE
       ELSE CASE fieldType \in {"number", "date"} ->
                     operator \in {"gt", "gte", "lt", "lte", "between"}
              [] fieldType = "string" -> operator \in {"contains"}
              [] fieldType = "boolean" -> FALSE
              [] fieldType = "enum" -> FALSE
              [] OTHER -> FALSE

-----------------------------------------------------------------------------
(* Filter to Prisma conversion (evaluator.service.ts) *)

Condition(field, operator, value) ==
    [field |-> field, operator |-> operator, value |-> value]
Group(logic, conditions) == [logic |-> logic, conditions |-> conditions]

\* { [field]: { <op>: value } }; equals stands for the bare { [field]: value }
Leaf(field, o, value) == [t |-> "leaf", field |-> field, op |-> o, value |-> value]
LeafInsensitive(field, o, value) ==
    [t |-> "leaf", field |-> field, op |-> o, value |-> value, mode |-> "insensitive"]
AndOf(clauses) == [t |-> "AND", clauses |-> clauses]
OrOf(clauses) == [t |-> "OR", clauses |-> clauses]
\* throw new Error(...)
Throw(message, subject) == [t |-> "throw", message |-> message, subject |-> subject]
IsThrow(x) == x.t = "throw"

\* lines 65-78: the value after date processing
processedValue(condition, t) ==
    LET fieldType == FieldType(condition.field)
        value == condition.value
    IN IF fieldType = "date" /\ IsString(value)
       THEN parseRelativeDate(value.s, t)
       ELSE IF fieldType = "date" /\ IsArray(value)
       THEN Arr([i \in DOMAIN value.items |->
                   IF IsString(value.items[i])
                   THEN parseRelativeDate(value.items[i].s, t)
                   ELSE value.items[i]])
       ELSE value

\* a variant of the date processing that stores the resolved dates in the
\* condition it was given
conditionAfterInPlace(condition, t) ==
    IF condition.operator \in {"isNull", "isNotNull"}
    THEN condition
    ELSE [condition EXCEPT !.value = processedValue(condition, t)]

\* the condition object after conditionToPrisma ran over it: field, operator
\* and value are read by destructuring, the resolved dates are assigned to the
\* local processedValue, and value.map builds a new array
conditionAfter(condition, t) == condition

\* the filters object after filtersToPrismaWhere ran over it
filtersAfter(fs, t) ==
    [g \in DOMAIN fs |->
        [fs[g] EXCEPT !.conditions =
            [c \in DOMAIN fs[g].conditions |->
                conditionAfter(fs[g].conditions[c], t)]]]

\* how many times conditionToPrisma calls parseRelativeDate
parseCalls(condition) ==
    LET fieldType == FieldType(condition.field)
        value == condition.value
    IN IF condition.operator \in {"isNull", "isNotNull"} THEN 0
       ELSE IF fieldType = "date" /\ IsString(value) THEN 1
       ELSE IF fieldType = "date" /\ IsArray(value)
       THEN Cardinality({i \in DOMAIN value.items : IsString(value.items[i])})
       ELSE 0

\* operatorToPrisma with the bounds of between taken exclusive
operatorToPrismaExclusive(field, operator, pv) ==
    CASE operator = "eq" -> Leaf(field, "equals", pv)
      [] operator = "neq" -> Leaf(field, "not", pv)
      [] operator = "gt" -> Leaf(field, "gt", pv)
      [] operator = "gte" -> Leaf(field, "gte", pv)
      [] operator = "lt" -> Leaf(field, "lt", pv)
      [] operator = "lte" -> Leaf(field, "lte", pv)
      [] operator = "in" -> Leaf(field, "in", pv)
      [] operator = "notIn" -> Leaf(field, "notIn", pv)
      [] operator = "between" ->
             IF IsArray(pv) /\ Len(pv.items) = 2
             THEN AndOf(<<Leaf(field, "gt", pv.items[1]),
                          Leaf(field, "lt", pv.items[2])>>)
             ELSE Throw("Invalid between value for field", field)
      [] operator = "contains" -> LeafInsensitive(field, "contains", pv)
      [] OTHER -> Throw("Unsupported operator", operator)

\* a variant that leaves out a condition it cannot translate
operatorToPrismaLenient(field, operator, pv) ==
    CASE operator = "eq" -> Leaf(field, "equals", pv)
      [] operator = "neq" -> Leaf(field, "not", pv)
      [] operator = "gt" -> Leaf(field, "gt", pv)
      [] operator = "gte" -> Leaf(field, "gte", pv)
      [] operator = "lt" -> Leaf(field, "lt", pv)
      [] operator = "lte" -> Leaf(field, "lte", pv)
      [] operator = "in" -> Leaf(field, "in", pv)
      [] operator = "notIn" -> Leaf(field, "notIn", pv)
      [] operator = "between" ->
             IF IsArray(pv) /\ Len(pv.items) = 2
             THEN AndOf(<<Leaf(field, "gte", pv.items[1]),
                          Leaf(field, "lte", pv.items[2])>>)
             ELSE Leaf(field, "equals", Undefined)
      [] operator = "contains" -> LeafInsensitive(field, "contains", pv)
      [] OTHER -> Leaf(field, "equals", Undefined)

\* lines 81-122: the switch on the operator, pv the processed value
operatorToPrisma(field, operator, pv) ==
    CASE operator = "eq" -> Leaf(field, "equals", pv)
      [] operator = "neq" -> Leaf(field, "not", pv)
      [] operator = "gt" -> Leaf(field, "gt", pv)
      [] operator = "gte" -> Leaf(field, "gte", pv)
      [] operator = "lt" -> Leaf(field, "lt", pv)
      [] operator = "lte" -> Leaf(field, "lte", pv)
      [] operator = "in" -> Leaf(field, "in", pv)
      [] operator = "notIn" -> Leaf(field, "notIn", pv)
      [] operator = "between" ->
             IF IsArray(pv) /\ Len(pv.items) = 2
             THEN AndOf(<<Leaf(field, "gte", pv.items[1]),
                          Leaf(field, "lte", pv.items[2])>>)
             ELSE Throw("Invalid between value for field", field)
      [] operator = "contains" -> LeafInsensitive(field, "contains", pv)
      [] OTHER -> Throw("Unsupported operator", operator)

\* conditionToPrisma without the null checks ahead of the switch
conditionToPrismaSwitchOnly(condition, t) ==
    operatorToPrisma(condition.field, condition.operator, processedValue(condition, t))

conditionToPrisma(condition, t) ==
    IF condition.operator = "isNull" THEN Leaf(condition.field, "equals", Null)
    ELSE IF condition.operator = "isNotNull" THEN Leaf(condition.field, "not", Null)
    ELSE operatorToPrisma(condition.field, condition.operator,
                          processedValue(condition, t))

\* Array.prototype.map with a callback that may throw: the first throw, in
\* index order, ends the map
MapOrThrow(mapped) ==
    IF \E i \in DOMAIN mapped : IsThrow(mapped[i])
    THEN mapped[CHOOSE i \in DOMAIN mapped :
                    /\ IsThrow(mapped[i])
                    /\ \A j \in DOMAIN mapped : IsThrow(mapped[j]) => i <= j]
    ELSE [t |-> "mapped", items |-> mapped]

\* filterGroupToPrisma with the two branches of the logic test exchanged
filterGroupToPrismaSwapped(group, t) ==
    LET conditions ==
            MapOrThrow([i \in DOMAIN group.conditions |->
                            conditionToPrisma(group.conditions[i], t)])
    IN IF IsThrow(conditions) THEN conditions
       ELSE IF group.logic = "AND" THEN OrOf(conditions.items)
       ELSE AndOf(conditions.items)

filterGroupToPrisma(group, t) ==
    LET conditions ==
            MapOrThrow([i \in DOMAIN group.conditions |->
                            conditionToPrisma(group.conditions[i], t)])
    IN IF IsThrow(conditions) THEN conditions
       ELSE IF group.logic = "AND" THEN AndOf(conditions.items)
       ELSE OrOf(conditions.items)

\* filtersToPrismaWhere returning { AND: groupClauses } alone
filtersToPrismaWhereNoTenant(tenant, fs, t) ==
    LET groupClauses ==
            MapOrThrow([i \in DOMAIN fs |-> filterGroupToPrisma(fs[i], t)])
    IN IF IsThrow(groupClauses) THEN groupClauses
       ELSE [t |-> "where", tenantId |-> Undefined, AND |-> groupClauses.items]

filtersToPrismaWhere(tenant, fs, t) ==
    LET groupClauses ==
            MapOrThrow([i \in DOMAIN fs |-> filterGroupToPrisma(fs[i], t)])
    IN IF IsThrow(groupClauses) THEN groupClauses
       ELSE [t |-> "where", tenantId |-> Str(tenant), AND |-> groupClauses.items]

-----------------------------------------------------------------------------
(* Filter validation (evaluator.service.ts) *)

RECURSIVE Flatten(_)
\* the concatenation of a sequence of sequences, in order
Flatten(ss) == IF ss = <<>> THEN <<>> ELSE Head(ss) \o Flatten(Tail(ss))

\* conditionErrors testing value.length < 2 for between
conditionErrorsAtLeastTwo(condition) ==
    LET field == condition.field
        operator == condition.operator
        value == condition.value
        fieldType == FieldType(field)
    IN IF field \notin DOMAIN FieldTypeMap
       THEN <<[error |-> "Unknown field", field |-> field]>>
       ELSE (IF operator = "between" /\ (~IsArray(value) \/ Len(value.items) < 2)
             THEN <<[error |-> "'between' requires array of 2 values", field |-> field]>>
             ELSE <<>>)
         \o (IF operator \in {"in", "notIn"} /\ ~IsArray(value)
             THEN <<[error |-> "requires array value", field |-> field,
                     operator |-> operator]>>
             ELSE <<>>)
         \o (IF operator = "contains" /\ fieldType # "string"
             THEN <<[error |-> "'contains' only valid for string fields", field |-> field]>>
             ELSE <<>>)
         \o (IF operator \in {"gt", "gte", "lt", "lte"}
                /\ fieldType # "number" /\ fieldType # "date"
             THEN <<[error |-> "only valid for number/date fields", field |-> field,
                     operator |-> operator]>>
             ELSE <<>>)

\* conditionErrors rejecting the ordering operators on boolean and string
\* fields only
conditionErrorsEnumOrdered(condition) ==
    LET field == condition.field
        operator == condition.operator
        value == condition.value
        fieldType == FieldType(field)
    IN IF field \notin DOMAIN FieldTypeMap
       THEN <<[error |-> "Unknown field", field |-> field]>>
       ELSE (IF operator = "between" /\ (~IsArray(value) \/ Len(value.items) # 2)
             THEN <<[error |-> "'between' requires array of 2 values", field |-> field]>>
             ELSE <<>>)
         \o (IF operator \in {"in", "notIn"} /\ ~IsArray(value)
             THEN <<[error |-> "requires array value", field |-> field,
                     operator |-> operator]>>
             ELSE <<>>)
         \o (IF operator = "contains" /\ fieldType # "string"
             THEN <<[error |-> "'contains' only valid for string fields", field |-> field]>>
             ELSE <<>>)
         \o (IF operator \in {"gt", "gte", "lt", "lte"}
                /\ fieldType \in {"boolean", "string"}
             THEN <<[error |-> "only valid for number/date fields", field |-> field,
                     operator |-> operator]>>
             ELSE <<>>)

\* lines 270-301: what one iteration of the inner loop pushes onto errors
conditionErrors(condition) ==
    LET validFields == DOMAIN FieldTypeMap
        field == condition.field
        operator == condition.operator
        value == condition.value
        fieldType == FieldType(field)
    IN IF field \notin validFields
       THEN <<[error |-> "Unknown field", field |-> field]>>
       ELSE (IF operator = "between" /\ (~IsArray(value) \/ Len(value.items) # 2)
             THEN <<[error |-> "'between' requires array of 2 values", field |-> field]>>
             ELSE <<>>)
         \o (IF operator \in {"in", "notIn"} /\ ~IsArray(value)
             THEN <<[error |-> "requires array value", field |-> field,
                     operator |-> operator]>>
             ELSE <<>>)
         \o (IF operator = "contains" /\ fieldType # "string"
             THEN <<[error |-> "'contains' only valid for string fields", field |-> field]>>
             ELSE <<>>)
         \o (IF operator \in {"gt", "gte", "lt", "lte"}
                /\ fieldType # "number" /\ fieldType # "date"
             THEN <<[error |-> "only valid for number/date fields", field |-> field,
                     operator |-> operator]>>
             ELSE <<>>)

\* validateFiltersExecutable returning at the first error
validateFiltersExecutableFailFast(fs) ==
    LET errors ==
            Flatten([g \in DOMAIN fs |->
                Flatten([i \in DOMAIN fs[g].conditions |->
                            conditionErrors(fs[g].conditions[i])])])
    IN [valid |-> Len(errors) = 0,
        errors |-> IF errors = <<>> THEN <<>> ELSE <<Head(errors)>>]

validateFiltersExecutable(fs) ==
    LET errors ==
            Flatten([g \in DOMAIN fs |->
                Flatten([i \in DOMAIN fs[g].conditions |->
                            conditionErrors(fs[g].conditions[i])])])
    IN [valid |-> Len(errors) = 0, errors |-> errors]

-----------------------------------------------------------------------------
(* Segment diff (evaluator.service.ts) *)

\* new Set(ids)
SetOf(ids) == {ids[i] : i \in DOMAIN ids}

\* diffEvaluations drawing unchanged from the previous list
diffEvaluationsFromPrevious(prev, cur) ==
    LET previousSet == SetOf(prev)
        currentSet == SetOf(cur)
        NotInPrevious(id) == id \notin previousSet
        NotInCurrent(id) == id \notin currentSet
        InCurrent(id) == id \in currentSet
    IN [added |-> SelectSeq(cur, NotInPrevious),
        removed |-> SelectSeq(prev, NotInCurrent),
        unchanged |-> SelectSeq(prev, InCurrent)]

RECURSIVE Distinct(_)
\* [...new Set(ids)]: the first occurrence of each id, in order
Distinct(ids) ==
    IF ids = <<>> THEN <<>>
    ELSE LET front == Distinct(SubSeq(ids, 1, Len(ids) - 1))
             last == ids[Len(ids)]
         IN IF last \in {front[i] : i \in DOMAIN front} THEN front
            ELSE Append(front, last)

\* diffEvaluations iterating the sets instead of the lists
diffEvaluationsOverSets(prev, cur) ==
    LET previousSet == SetOf(prev)
        currentSet == SetOf(cur)
        NotInPrevious(id) == id \notin previousSet
        NotInCurrent(id) == id \notin currentSet
        InPrevious(id) == id \in previousSet
    IN [added |-> SelectSeq(Distinct(cur), NotInPrevious),
        removed |-> SelectSeq(Distinct(prev), NotInCurrent),
        unchanged |-> SelectSeq(Distinct(cur), InPrevious)]

diffEvaluations(prev, cur) ==
    LET previousSet == SetOf(prev)
        currentSet == SetOf(cur)
        NotInPrevious(id) == id \notin previousSet
        NotInCurrent(id) == id \notin currentSet
        InPrevious(id) == id \in previousSet
    IN [added |-> SelectSeq(cur, NotInPrevious),
        removed |-> SelectSeq(prev, NotInCurrent),
        unchanged |-> SelectSeq(cur, InPrevious)]

-----------------------------------------------------------------------------
(* The persistence engine behind prisma.customer: the query interface of   *)
(* spec section 6 (findMany / aggregate / count over a predicate of nested *)
(* AND / OR groups of field-level comparisons)                             *)

RfmSegmentValue ==
    {<<"L", "O", "Y", "A", "L">>, <<"L", "O", "S", "T">>}

\* the type of a column of the customer table
ColumnType(field) == IF field = "tenantId" THEN "string" ELSE FieldType(field)

CharCode(c) ==
    CASE c \in Digits -> 48 + DigitVal(c)
      [] c = "+" -> 43 [] c = "-" -> 45 [] c = ":" -> 58 [] c = "@" -> 64
      [] c = "A" -> 65 [] c = "L" -> 76 [] c = "O" -> 79 [] c = "S" -> 83
      [] c = "T" -> 84 [] c = "Y" -> 89 [] c = "Z" -> 90
      [] c = "a" -> 97 [] c = "b" -> 98 [] c = "d" -> 100 [] c = "h" -> 104
      [] c = "m" -> 109 [] c = "x" -> 120

RECURSIVE StrLeq(_, _)
StrLeq(a, b) ==
    IF a = <<>> THEN TRUE
    ELSE IF b = <<>> THEN FALSE
    ELSE IF CharCode(Head(a)) # CharCode(Head(b)) THEN CharCode(Head(a)) < CharCode(Head(b))
    ELSE StrLeq(Tail(a), Tail(b))

ToLower(c) ==
    CASE c = "A" -> "a" [] c = "L" -> "l" [] c = "O" -> "o" [] c = "S" -> "s"
      [] c = "T" -> "t" [] c = "Y" -> "y" [] c = "Z" -> "z" [] OTHER -> c

\* case-insensitive substring
ContainsInsensitive(text, part) ==
    \E start \in 0..(Len(text) - Len(part)) :
        \A i \in 1..Len(part) : ToLower(text[start + i]) = ToLower(part[i])

\* a <= b on two values of one orderable type
ValueLeq(a, b) ==
    CASE a.k = "number" -> a.n <= b.n
      [] a.k = "date" -> DateLeq(a, b)
      [] a.k = "string" -> StrLeq(a.s, b.s)

\* whether a filter value has the type of the column
ScalarFits(ct, v) ==
    CASE ct = "string" -> v.k = "string"
      [] ct = "number" -> v.k = "number"
      [] ct = "date" -> v.k = "date" /\ v.valid
      [] ct = "boolean" -> v.k = "boolean"
      [] ct = "enum" -> v.k = "string" /\ v.s \in RfmSegmentValue
      [] OTHER -> FALSE

\* the engine's validation of one comparison against the table's schema; an
\* undefined value means that no filter is given
LeafAccepted(leaf) ==
    LET ct == ColumnType(leaf.field)
        v == leaf.value
    IN /\ ct # "undefined"
       /\ \/ v = Undefined
          \/ CASE leaf.op \in {"equals", "not"} -> v = Null \/ ScalarFits(ct, v)
               [] leaf.op \in {"gt", "gte", "lt", "lte"} ->
                      ct \in {"string", "number", "date"} /\ ScalarFits(ct, v)
               [] leaf.op \in {"in", "notIn"} ->
                      /\ ct # "boolean"
                      /\ IsArray(v)
                      /\ \A i \in DOMAIN v.items : ScalarFits(ct, v.items[i])
               [] leaf.op = "contains" -> ct = "string" /\ v.k = "string"
               [] OTHER -> FALSE

RECURSIVE ClauseAccepted(_)
ClauseAccepted(clause) ==
    CASE clause.t = "leaf" -> LeafAccepted(clause)
      [] clause.t \in {"AND", "OR"} ->
             \A i \in DOMAIN clause.clauses : ClauseAccepted(clause.clauses[i])
      [] clause.t = "where" ->
             \A i \in DOMAIN clause.AND : ClauseAccepted(clause.AND[i])

\* one comparison on a column value cv; a null column satisfies only IS NULL
LeafHolds(cv, leaf) ==
    LET v == leaf.value
    IN IF v = Undefined THEN TRUE
       ELSE CASE leaf.op = "equals" -> cv = v
              [] leaf.op = "not" -> cv # Null /\ cv # v
              [] leaf.op = "gt" -> cv # Null /\ ~ValueLeq(cv, v)
              [] leaf.op = "gte" -> cv # Null /\ ValueLeq(v, cv)
              [] leaf.op = "lt" -> cv # Null /\ ~ValueLeq(v, cv)
              [] leaf.op = "lte" -> cv # Null /\ ValueLeq(cv, v)
              [] leaf.op = "in" -> cv # Null /\ \E i \in DOMAIN v.items : v.items[i] = cv
              [] leaf.op = "notIn" -> cv # Null /\ \A i \in DOMAIN v.items : v.items[i] # cv
              [] leaf.op = "contains" -> cv # Null /\ ContainsInsensitive(cv.s, v.s)

RECURSIVE Satisfies(_, _)
\* whether a customer row satisfies an accepted predicate: the keys of one
\* object are conjoined, AND: [] holds of every row and OR: [] of none
Satisfies(row, clause) ==
    CASE clause.t = "leaf" -> LeafHolds(row.cols[clause.field], clause)
      [] clause.t = "AND" ->
             \A i \in DOMAIN clause.clauses : Satisfies(row, clause.clauses[i])
      [] clause.t = "OR" ->
             \E i \in DOMAIN clause.clauses : Satisfies(row, clause.clauses[i])
      [] clause.t = "where" ->
             /\ (clause.tenantId = Undefined \/ row.cols["tenantId"] = clause.tenantId)
             /\ \A i \in DOMAIN clause.AND : Satisfies(row, clause.AND[i])

Matching(table, clause) == {row \in table : Satisfies(row, clause)}

RECURSIVE RowsInOrder(_)
\* the rows of a set in table order
RowsInOrder(rows) ==
    IF rows = {} THEN <<>>
    ELSE LET first == CHOOSE r \in rows : \A q \in rows : r.row <= q.row
         IN <<first>> \o RowsInOrder(rows \ {first})

RECURSIVE RowsBySpend(_)
\* orderBy: { totalSpent: 'desc' }
RowsBySpend(rows) ==
    IF rows = {} THEN <<>>
    ELSE LET first == CHOOSE r \in rows : \A q \in rows :
                          \/ r.cols["totalSpent"].n > q.cols["totalSpent"].n
                          \/ /\ r.cols["totalSpent"].n = q.cols["totalSpent"].n
                             /\ r.row <= q.row
         IN <<first>> \o RowsBySpend(rows \ {first})

RECURSIVE SumSpent(_)
SumSpent(rows) ==
    IF rows = {} THEN 0
    ELSE LET r == CHOOSE q \in rows : TRUE
         IN r.cols["totalSpent"].n + SumSpent(rows \ {r})

Rejected == [ok |-> FALSE, error |-> "PrismaClientValidationError"]
\* a read the engine could not serve (connection lost, timeout)
Unavailable == [ok |-> FALSE, error |-> "PrismaClientKnownRequestError"]

\* prisma.customer.findMany({ where, select: { id: true } })
findMany(table, clause) ==
    IF ~ClauseAccepted(clause) THEN Rejected
    ELSE [ok |-> TRUE, rows |-> RowsInOrder(Matching(table, clause))]

\* prisma.customer.findMany({ where, orderBy: { totalSpent: 'desc' }, take })
findManyTop(table, clause, take) ==
    IF ~ClauseAccepted(clause) THEN Rejected
    ELSE LET rows == RowsBySpend(Matching(table, clause))
         IN [ok |-> TRUE,
             rows |-> SubSeq(rows, 1, IF take < Len(rows) THEN take ELSE Len(rows))]

\* prisma.customer.aggregate({ where, _count: { id }, _sum: { totalSpent } })
aggregate(table, clause) ==
    IF ~ClauseAccepted(clause) THEN Rejected
    ELSE LET rows == Matching(table, clause)
         IN [ok |-> TRUE,
             count |-> Cardinality(rows),
             sum |-> IF rows = {} THEN Null ELSE Num(SumSpent(rows))]

\* prisma.customer.count({ where })
count(table, clause) ==
    IF ~ClauseAccepted(clause) THEN Rejected
    ELSE [ok |-> TRUE, count |-> Cardinality(Matching(table, clause))]

-----------------------------------------------------------------------------
(* Filter schemas (segment.types.ts) *)

\* z.string().min(1).max(500)
MaxStringLength == 500
\* z.array(...).min(1).max(100)
MaxArrayLength == 100
\* conditions: z.array(FilterCondition).min(1).max(20)
MaxGroupConditions == 20
\* groups: z.array(FilterGroup).min(1).max(10)
MaxFilterGroups == 10

IsNumber(v) == v.k = "number"
IsBoolean(v) == v.k = "boolean"

StringFilterValue(v) ==
    IsString(v) /\ Len(v.s) >= 1 /\ Len(v.s) <= MaxStringLength
NumberFilterValue(v) == IsNumber(v)
\* an ISO timestamp, or text the pattern /^-?\d+[dhm]$/ matches
DateFilterValue(v) == IsString(v) /\ (IsoShape(v.s) \/ RelativeMatch(v.s))
BooleanFilterValue(v) == IsBoolean(v)
RangeValue(v) == IsArray(v) /\ Len(v.items) = 2 /\ (\A i \in DOMAIN v.items : NumberFilterValue(v.items[i]))
DateRangeValue(v) == IsArray(v) /\ Len(v.items) = 2 /\ (\A i \in DOMAIN v.items : DateFilterValue(v.items[i]))
StringArrayValue(v) ==
    /\ IsArray(v)
    /\ Len(v.items) >= 1 /\ Len(v.items) <= MaxArrayLength
    /\ (\A i \in DOMAIN v.items : StringFilterValue(v.items[i]))
NumberArrayValue(v) ==
    /\ IsArray(v)
    /\ Len(v.items) >= 1 /\ Len(v.items) <= MaxArrayLength
    /\ (\A i \in DOMAIN v.items : NumberFilterValue(v.items[i]))
IsRfmSegmentValue(v) == IsString(v) /\ v.s \in RfmSegmentValue
RfmSegmentArrayValue(v) ==
    IsArray(v) /\ Len(v.items) >= 1 /\ (\A i \in DOMAIN v.items : IsRfmSegmentValue(v.items[i]))

\* the z.union of FilterCondition.value accepts the value
FilterConditionValue(v) ==
    \/ StringFilterValue(v)
    \/ NumberFilterValue(v)
    \/ DateFilterValue(v)
    \/ BooleanFilterValue(v)
    \/ RangeValue(v)
    \/ DateRangeValue(v)
    \/ StringArrayValue(v)
    \/ NumberArrayValue(v)
    \/ RfmSegmentArrayValue(v)
    \/ v = Null

Issue(path, message) == [path |-> path, message |-> message]

\* the issues of the z.object of a condition, before its refinement
FilterConditionShapeIssues(c, path) ==
    (IF c.field \in FilterableField THEN <<>>
     ELSE <<Issue(path \o <<"field">>, "Invalid enum value")>>)
    \o (IF c.operator \in FilterOperator THEN <<>>
        ELSE <<Issue(path \o <<"operator">>, "Invalid enum value")>>)
    \o (IF c.value = Undefined \/ FilterConditionValue(c.value) THEN <<>>
        ELSE <<Issue(path \o <<"value">>, "Invalid input")>>)

\* a variant without the refinement
FilterConditionIssuesUnrefined(c, path) == FilterConditionShapeIssues(c, path)

\* FilterCondition, lines 163-187: the refinement runs on a condition whose
\* shape was accepted
FilterConditionIssues(c, path) ==
    IF FilterConditionShapeIssues(c, path) # <<>>
    THEN FilterConditionShapeIssues(c, path)
    ELSE IF c.operator = "isNull" \/ c.operator = "isNotNull" THEN <<>>
    ELSE IF c.value # Undefined /\ c.value # Null THEN <<>>
    ELSE <<Issue(path, "Value is required for this operator")>>

\* FilterGroup, lines 201-204
FilterGroupIssues(group, path) ==
    (IF group.logic \in {"AND", "OR"} THEN <<>>
     ELSE <<Issue(path \o <<"logic">>, "Invalid enum value")>>)
    \o (IF Len(group.conditions) < 1
        THEN <<Issue(path \o <<"conditions">>, "Array must contain at least 1 element(s)")>>
        ELSE IF Len(group.conditions) > MaxGroupConditions
        THEN <<Issue(path \o <<"conditions">>, "Array must contain at most 20 element(s)")>>
        ELSE <<>>)
    \o Flatten([i \in DOMAIN group.conditions |->
                   FilterConditionIssues(group.conditions[i],
                                         path \o <<"conditions", i - 1>>)])

\* SegmentFilters, lines 232-234
SegmentFiltersIssues(fs) ==
    (IF Len(fs) < 1
     THEN <<Issue(<<"groups">>, "Array must contain at least 1 element(s)")>>
     ELSE IF Len(fs) > MaxFilterGroups
     THEN <<Issue(<<"groups">>, "Array must contain at most 10 element(s)")>>
     ELSE <<>>)
    \o Flatten([g \in DOMAIN fs |-> FilterGroupIssues(fs[g], <<"groups", g - 1>>)])

\* validateSegmentFilters(filters), lines 245-265
validateSegmentFilters(fs) ==
    IF SegmentFiltersIssues(fs) = <<>>
    THEN [success |-> TRUE, data |-> fs]
    ELSE [success |-> FALSE, error |-> SegmentFiltersIssues(fs)]

-----------------------------------------------------------------------------
(* Inputs *)

T1 == <<"T", "1">>
T2 == <<"T", "2">>
Tenants == {T1, T2}

Loyal == <<"L", "O", "Y", "A", "L">>
Lost == <<"L", "O", "S", "T">>
MailA == <<"a", "@", "x">>
MailB == <<"b", "@", "x">>
\* "-1d", "-1m", "2h", "+5d": relative date texts, the last with a plus sign
Minus1d == <<"-", "1", "d">>
Minus1m == <<"-", "1", "m">>
Plus2h == <<"2", "h">>
Signed5d == <<"+", "5", "d">>
\* "2024-03-15T10:00:00Z"
Iso == <<"2", "0", "2", "4", "-", "0", "3", "-", "1", "5", "T", "1", "0",
         ":", "0", "0", ":", "0", "0", "Z">>
\* text that is neither a relative nor an ISO date
Malformed == <<"x", "x">>

\* 31 March 2024 10:00, 1 January 2024 00:00, 31 December 2023 23:00
Clocks == {DateOf(2024, 2, 31, 10), DateOf(2024, 0, 1, 0), DateOf(2023, 11, 31, 23)}
Clock0 == DateOf(2024, 2, 31, 10)

Columns == FilterableField \cup {"tenantId"}

\* a customer row: every column null but the given ones
Row(id, row, tenant, given) ==
    [id |-> id, row |-> row,
     cols |-> given @@ [c \in {"tenantId"} |-> Str(tenant)] @@ [c \in Columns |-> Null]]

\* a row whose columns hold n, date and text according to their types
TypedRow(id, row, tenant, n, date, text, flag, segment) ==
    Row(id, row, tenant,
        [c \in FilterableField |->
            CASE FieldTypeMap[c] = "number" -> Num(n)
              [] FieldTypeMap[c] = "date" -> date
              [] FieldTypeMap[c] = "string" -> Str(text)
              [] FieldTypeMap[c] = "boolean" -> Bool(flag)
              [] FieldTypeMap[c] = "enum" -> Str(segment)])

\* the rows the customer table is filled from
CustomerPool ==
    {TypedRow("c1", 1, T1, 5, DateOf(2024, 2, 31, 9), MailA, FALSE, Loyal),
     TypedRow("c2", 2, T1, 0, DateOf(2024, 2, 15, 10), MailB, TRUE, Lost),
     Row("c3", 3, T1, [c \in {"totalSpent"} |-> Num(7)]
                          @@ [c \in {"isHighValue"} |-> Bool(TRUE)]),
     TypedRow("c4", 4, T2, 5, DateOf(2024, 2, 31, 9), MailA, TRUE, Loyal)}

\* rows to try a predicate on: values below, at and above the bounds in use
ProbeRows ==
    {TypedRow("p0", 10, T1, 0, DateOf(2024, 1, 29, 10), <<"a">>, FALSE, Lost),
     TypedRow("p1", 11, T1, 1, DateOf(2024, 2, 2, 10), <<"a", "b">>, FALSE, Lost),
     TypedRow("p2", 12, T1, 2, DateOf(2024, 2, 15, 10), <<"b">>, TRUE, Loyal),
     TypedRow("p3", 13, T1, 3, DateOf(2024, 2, 30, 10), <<"x">>, TRUE, Loyal),
     TypedRow("p4", 14, T1, 4, DateOf(2024, 3, 1, 0), <<"x", "x">>, TRUE, Loyal),
     Row("p5", 15, T1, <<>>)}

RECURSIVE SeqsOver(_, _)
\* the sequences of length n over S
SeqsOver(S, n) ==
    IF n = 0 THEN {<<>>}
    ELSE {Append(q, x) : q \in SeqsOver(S, n - 1), x \in S}

SeqsUpTo(S, n) == UNION {SeqsOver(S, k) : k \in 0..n}

RECURSIVE FiltersWith(_, _, _)
\* the filters of g groups over a pool of conditions, with at most budget
\* conditions in all; an unvalidated filter may hold empty groups
FiltersWith(pool, g, budget) ==
    IF g = 0 THEN {<<>>}
    ELSE UNION {{<<Group(l, cs)>> \o rest :
                    l \in {"AND", "OR"},
                    rest \in FiltersWith(pool, g - 1, budget - Len(cs))} :
                cs \in SeqsUpTo(pool, budget)}

ComposedFilters(pool) == UNION {FiltersWith(pool, g, MaxConditions) : g \in 0..MaxGroups}

SingleFilters(pool, logics) == {<<Group(l, <<c>>)>> : l \in logics, c \in pool}

\* scalar values, and arrays of zero to three of them
ScalarValues ==
    {Undefined, Null, Num(1), Num(3), Bool(TRUE), Str(<<"a">>),
     Str(Minus1d), Str(Minus1m), Str(Signed5d), Str(Iso), Str(Malformed)}
PairMembers == {Num(1), Num(3), Str(<<"a">>), Str(Minus1m), Str(Iso), Str(Malformed)}
ArrayValues ==
    {Arr(<<>>), Arr(<<Num(1), Num(2), Num(3)>>), Arr(<<Str(Iso), Str(Iso), Str(Iso)>>)}
    \cup {Arr(<<a>>) : a \in PairMembers}
    \cup {Arr(<<a, b>>) : a \in PairMembers, b \in PairMembers}
Values == ScalarValues \cup ArrayValues

\* the 19 fields, and two names the type map does not have (one of them a
\* column of the table)
FieldNames == FilterableField \cup {"tenantId", "nickname"}
\* the 12 operators, and one outside the closed set
OperatorNames == FilterOperator \cup {"startsWith"}

AllConditions ==
    {Condition(f, o, v) : f \in FieldNames, o \in OperatorNames, v \in Values}

\* conditions the composed validation inputs are built from: an unknown
\* field, a between of the wrong arity, a misapplied contains, a sound one
ValidationPool ==
    {Condition("nickname", "eq", Str(<<"a">>)),
     Condition("totalSpent", "between", Arr(<<Num(1)>>)),
     Condition("totalSpent", "contains", Str(<<"a">>)),
     Condition("totalSpent", "gte", Num(1))}

FilterInputs == SingleFilters(AllConditions, {"AND"}) \cup ComposedFilters(ValidationPool)

\* conditions the composed evaluation inputs are built from
EvalPool ==
    {Condition("totalSpent", "gte", Num(1)),
     Condition("isHighValue", "eq", Bool(TRUE))}

WidePool ==
    {Condition("tenantId", "eq", Str(T2)),
     Condition("tenantId", "neq", Str(T1)),
     Condition("tenantId", "in", Arr(<<Str(T1), Str(T2)>>)),
     Condition("tenantId", "isNotNull", Undefined),
     Condition("totalSpent", "between", Arr(<<Num(1), Num(5)>>)),
     Condition("totalSpent", "between", Arr(<<Num(1)>>)),
     Condition("totalSpent", "lt", Num(5)),
     Condition("totalSpent", "in", Arr(<<Num(0), Num(7)>>)),
     Condition("totalSpent", "notIn", Arr(<<Num(0), Num(7)>>)),
     Condition("totalSpent", "eq", Undefined),
     Condition("totalSpent", "startsWith", Num(1)),
     Condition("email", "isNull", Undefined),
     Condition("email", "isNotNull", Str(Malformed)),
     Condition("email", "contains", Str(<<"A", "@">>)),
     Condition("email", "neq", Str(MailA)),
     Condition("lastOrderDate", "gte", Str(Minus1d)),
     Condition("lastOrderDate", "between", Arr(<<Str(Iso), Str(Minus1d)>>)),
     Condition("lastOrderDate", "lt", Str(Malformed)),
     Condition("lastOrderDate", "isNull", Str(Malformed)),
     Condition("rfmSegment", "in", Arr(<<Str(Loyal)>>)),
     Condition("rfmSegment", "eq", Str(Lost)),
     Condition("isHighValue", "gt", Bool(FALSE)),
     Condition("nickname", "eq", Str(<<"a">>))}

\* a condition on the tenant column beside another one, under either logic
TenantProbes ==
    {<<Group(l, <<Condition("tenantId", o, Str(T2)), c>>)>> :
        l \in {"AND", "OR"}, o \in {"eq", "neq"}, c \in EvalPool}

\* two groups, one of them of two conditions, under every pair of logics
ShapeProbes ==
    {<<Group(l1, <<Condition("totalSpent", "gte", Num(1)),
                   Condition("isHighValue", "eq", Bool(TRUE))>>),
       Group(l2, <<Condition("totalSpent", "lt", Num(7))>>)>> :
        l1 \in {"AND", "OR"}, l2 \in {"AND", "OR"}}

\* a condition the translation cannot express, after sound ones
ThrowProbes ==
    {<<Group("AND", <<Condition("totalSpent", "gte", Num(1))>>),
       Group("OR", <<Condition("isHighValue", "eq", Bool(TRUE)), c>>)>> :
        c \in {Condition("totalSpent", "between", Arr(<<Num(1), Num(2), Num(3)>>)),
               Condition("totalSpent", "between", Num(1)),
               Condition("email", "startsWith", Str(<<"a">>))}}

EvalFilters ==
    ComposedFilters(EvalPool) \cup SingleFilters(WidePool, {"AND", "OR"})
        \cup TenantProbes \cup ShapeProbes \cup ThrowProbes

Ids == {"A", "B", "C", "D"}
IdLists == SeqsUpTo(Ids, MaxIds)

RECURSIVE Numeral(_)
\* the decimal text of a natural number
Numeral(n) ==
    IF n < 10 THEN <<SubSeq(<<"0", "1", "2", "3", "4", "5", "6", "7", "8", "9">>, n + 1, n + 1)[1]>>
    ELSE Numeral(n \div 10) \o Numeral(n % 10)

\* <N><u> for every amount, with and without a minus sign
RelativeTexts ==
    {sign \o Numeral(n) \o <<u>> :
        sign \in {<<>>, <<"-">>}, n \in 0..MaxAmount, u \in {"d", "h", "m"}}

Slashed == <<"2", "0", "2", "4", "/", "0", "3", "/", "0", "7">>
\* texts that are no relative date: an ISO timestamp, and texts that are
\* neither form
OtherTexts ==
    {Iso, Slashed, Malformed, Signed5d, <<"d">>, <<"-", "d">>, <<>>}

DateTexts == RelativeTexts \cup OtherTexts

\* 31 January 2024 12:00 and 29 January 2023 00:00 besides the other readings
DateClocks == Clocks \cup {DateOf(2024, 0, 31, 12), DateOf(2023, 0, 29, 0)}

\* n copies of x
Repeated(x, n) == [i \in 1..n |-> x]

\* values at and beyond the size limits of the schemas
LongValues ==
    {Arr(Repeated(x, n)) :
        x \in {Str(<<"a">>), Num(1), Str(Loyal)},
        n \in {MaxArrayLength, MaxArrayLength + 1}}
    \cup {Str(Repeated("a", n)) : n \in {MaxStringLength, MaxStringLength + 1}}
    \cup {Arr(<<Str(Loyal), Str(Lost)>>), Arr(<<Str(Loyal), Num(1)>>)}

LongConditions ==
    {Condition(f, o, v) :
        f \in {"email", "totalSpent", "rfmSegment"},
        o \in {"eq", "in", "notIn", "isNull"},
        v \in LongValues}

\* filters whose arrays of groups and conditions are empty, at and beyond
\* their limits, and a group with a logic outside the enum
SchemaShapeProbes ==
    {<<>>, <<Group("AND", <<>>)>>,
     <<Group("XOR", <<Condition("totalSpent", "gte", Num(1))>>)>>}
    \cup {Repeated(Group("AND", <<Condition("totalSpent", "gte", Num(1))>>), n) :
             n \in {MaxFilterGroups, MaxFilterGroups + 1}}
    \cup {<<Group("OR", Repeated(Condition("totalSpent", "gte", Num(1)), n))>> :
             n \in {MaxGroupConditions, MaxGroupConditions + 1}}

SchemaInputs ==
    SingleFilters(AllConditions \cup LongConditions, {"AND"})
        \cup ComposedFilters(ValidationPool) \cup SchemaShapeProbes

\* the customer c1 after an update of its spend and flag
ChangedC1 == TypedRow("c1", 1, T1, 9, DateOf(2024, 2, 31, 9), MailA, TRUE, Loyal)

\* rows of a table other processes write to while a query runs
SharedPool ==
    {r \in CustomerPool : r.id \in {"c1", "c2", "c4"}} \cup {ChangedC1}

\* the contents such a table can have: one row per id
SharedStores ==
    {S \in SUBSET SharedPool : \A r \in S : \A q \in S : r.id = q.id => r = q}

\* filters evaluated against a table under writes
SharedFilters == ShapeProbes \cup SingleFilters(EvalPool, {"AND"})

\* filters given to both validators and to the translation
AdmissionInputs == SingleFilters(AllConditions, {"AND", "OR"})

\* filters evaluated with an engine that may fail: sound ones, ones with dates
\* to resolve, ones the translation throws on and ones the engine refuses
FaultyFilters == SharedFilters \cup SingleFilters(WidePool, {"AND"})

-----------------------------------------------------------------------------
(* State *)

NotRun == [t |-> "none"]
\* findUnique found no row
NoSession == [t |-> "absent"]
SessionIds == {"s1", "s2"}
NotRead == [ok |-> FALSE, error |-> "pending"]

Idle ==
    /\ op = "none"
    /\ pc = "idle"
    /\ limit = 0
    /\ whereClause = NotRun
    /\ customers = NotRead
    /\ aggregates = NotRead
    /\ result = NotRun
    /\ validation = NotRun
    /\ diff = NotRun
    /\ resolved = NotRun
    /\ allowed = NotRun
    /\ parsed = NotRun
    /\ sessions = [id \in SessionIds |-> NoSession]
    /\ sessionId = "none"
    /\ session = NoSession

\* no helper is called on its own
NoHelperArguments ==
    /\ dateValue = <<>>
    /\ fieldArg = "none"
    /\ operatorArg = "none"

\* evaluation: a tenant, a filter and a customer table
Init ==
    /\ dateParser \in DateParsers
    /\ NoHelperArguments
    /\ now = Clock0
    /\ tenantId \in Tenants
    /\ filters \in EvalFilters
    /\ store \in SUBSET CustomerPool
    /\ previous = <<>>
    /\ current = <<>>
    /\ Idle

\* translation and validation of a filter
InitFilter ==
    /\ dateParser \in DateParsers
    /\ NoHelperArguments
    /\ now \in Clocks
    /\ tenantId = T1
    /\ filters \in FilterInputs
    /\ store = {}
    /\ previous = <<>>
    /\ current = <<>>
    /\ Idle

\* diff of two snapshots
InitDiff ==
    /\ dateParser \in DateParsers
    /\ NoHelperArguments
    /\ now = Clock0
    /\ tenantId = T1
    /\ filters = <<>>
    /\ store = {}
    /\ previous \in IdLists
    /\ current \in IdLists
    /\ Idle

\* resolution of a date text at a clock reading
InitDate ==
    /\ dateParser \in DateParsers
    /\ dateValue \in DateTexts
    /\ fieldArg = "none"
    /\ operatorArg = "none"
    /\ now \in DateClocks
    /\ tenantId = T1
    /\ filters = <<>>
    /\ store = {}
    /\ previous = <<>>
    /\ current = <<>>
    /\ Idle

\* evaluation against a table that other processes write to
InitShared ==
    /\ dateParser \in DateParsers
    /\ NoHelperArguments
    /\ now = Clock0
    /\ tenantId = T1
    /\ filters \in SharedFilters
    /\ store \in SharedStores
    /\ previous = <<>>
    /\ current = <<>>
    /\ Idle

\* evaluation with an engine that may fail a read
InitFaulty ==
    /\ dateParser \in DateParsers
    /\ NoHelperArguments
    /\ now = Clock0
    /\ tenantId = T1
    /\ filters \in FaultyFilters
    /\ store \in SharedStores
    /\ previous = <<>>
    /\ current = <<>>
    /\ Idle

\* a filter to parse with the schema, to validate and to translate
InitAdmission ==
    /\ dateParser \in DateParsers
    /\ NoHelperArguments
    /\ now = Clock0
    /\ tenantId = T1
    /\ filters \in AdmissionInputs
    /\ store = {}
    /\ previous = <<>>
    /\ current = <<>>
    /\ Idle

\* a filter to parse with the schema
InitSchema ==
    /\ dateParser \in DateParsers
    /\ NoHelperArguments
    /\ now = Clock0
    /\ tenantId = T1
    /\ filters \in SchemaInputs
    /\ store = {}
    /\ previous = <<>>
    /\ current = <<>>
    /\ Idle

\* a field and an operator to look up in the compatibility table
InitOperator ==
    /\ dateParser \in DateParsers
    /\ dateValue = <<>>
    /\ fieldArg \in FilterableField
    /\ operatorArg \in FilterOperator
    /\ now = Clock0
    /\ tenantId = T1
    /\ filters = <<>>
    /\ store = {}
    /\ previous = <<>>
    /\ current = <<>>
    /\ Idle

-----------------------------------------------------------------------------
(* Operations *)

Failed(error) == [ok |-> FALSE, error |-> error]

\* the call of an exported query function up to its first await: the
\* predicate is built, and a throw of the translation rejects the call
\* before any read is issued
Call(name) ==
    /\ pc = "idle"
    /\ op' = name
    /\ whereClause' = filtersToPrismaWhere(tenantId, filters, now)
    /\ IF IsThrow(whereClause')
       THEN pc' = "done" /\ result' = Failed(whereClause')
       ELSE pc' = "reading" /\ result' = result
    /\ filters' = filtersAfter(filters, now)
    /\ UNCHANGED <<sessionState, dateParser, helpers, now, tenantId, store, customers, aggregates,
                   validation, diff, previous, current>>

\* evaluateSegment(tenantId, filters), lines 162-181
EvaluateSegment == Call("evaluateSegment") /\ limit' = limit

\* previewSegmentCustomers(tenantId, filters, limit), lines 212-243
PreviewSegmentCustomers ==
    \E n \in 1..MaxLimit : Call("previewSegmentCustomers") /\ limit' = n

\* countMatchingCustomers(tenantId, filters), lines 201-206
CountMatchingCustomers == Call("countMatchingCustomers") /\ limit' = limit

\* the engine answers the findMany of the Promise.all
FindMany ==
    /\ pc = "reading"
    /\ op \in {"evaluateSegment", "previewSegmentCustomers"}
    /\ customers = NotRead
    /\ customers' = IF op = "evaluateSegment"
                    THEN findMany(store, whereClause)
                    ELSE findManyTop(store, whereClause, limit)
    /\ UNCHANGED <<sessionState, dateParser, helpers, now, tenantId, filters, limit, store, op, pc, whereClause,
                   aggregates, result, validation, diff, previous, current>>

\* a variant of the aggregate read that is answered from the rows the id
\* read returned, when that read was answered first
AggregateOfIdRead ==
    /\ pc = "reading"
    /\ op \in {"evaluateSegment", "previewSegmentCustomers"}
    /\ aggregates = NotRead
    /\ aggregates' = IF customers.ok /\ op = "evaluateSegment"
                     THEN aggregate(SetOf(customers.rows), whereClause)
                     ELSE aggregate(store, whereClause)
    /\ UNCHANGED <<sessionState, dateParser, helpers, now, tenantId, filters, limit, store, op, pc,
                   whereClause, customers, result, validation, diff, previous,
                   current>>

\* the engine answers the aggregate of the Promise.all
Aggregate ==
    /\ pc = "reading"
    /\ op \in {"evaluateSegment", "previewSegmentCustomers"}
    /\ aggregates = NotRead
    /\ aggregates' = aggregate(store, whereClause)
    /\ UNCHANGED <<sessionState, dateParser, helpers, now, tenantId, filters, limit, store, op, pc, whereClause,
                   customers, result, validation, diff, previous, current>>

\* Number(aggregates._sum.totalSpent ?? 0)
SumOrZero(sum) == IF sum = Null THEN 0 ELSE sum.n

\* a variant that reads the total from the count of the aggregate
EvaluationResultCountAsSum(found, totals, t) ==
    [ok |-> TRUE,
     customerIds |-> [i \in DOMAIN found.rows |-> found.rows[i].id],
     totalCount |-> totals.count,
     totalSpent |-> totals.count,
     evaluatedAt |-> t]

\* lines 183-195: the EvaluationResult
EvaluationResult(found, totals, t) ==
    [ok |-> TRUE,
     customerIds |-> [i \in DOMAIN found.rows |-> found.rows[i].id],
     totalCount |-> totals.count,
     totalSpent |-> SumOrZero(totals.sum),
     evaluatedAt |-> t]

\* a variant that takes the totals from the records of the page
PreviewResultOfPage(found, totals) ==
    [ok |-> TRUE,
     customers |-> [i \in DOMAIN found.rows |->
                       [id |-> found.rows[i].id,
                        totalSpent |-> found.rows[i].cols["totalSpent"].n]],
     totalCount |-> Len(found.rows),
     estimatedRevenue |-> SumSpent(SetOf(found.rows))]

\* lines 245-252: the preview
PreviewResult(found, totals) ==
    [ok |-> TRUE,
     customers |-> [i \in DOMAIN found.rows |->
                       [id |-> found.rows[i].id,
                        totalSpent |-> found.rows[i].cols["totalSpent"].n]],
     totalCount |-> totals.count,
     estimatedRevenue |-> SumOrZero(totals.sum)]

\* the read was answered with an error
FailedRead(read) == read # NotRead /\ ~read.ok

\* a variant that issues a failed read again instead of failing
ReturnWithRetry ==
    /\ pc = "reading"
    /\ op \in {"evaluateSegment", "previewSegmentCustomers"}
    /\ \/ /\ FailedRead(customers)
          /\ customers' = NotRead
          /\ UNCHANGED <<aggregates, result, pc>>
       \/ /\ FailedRead(aggregates)
          /\ aggregates' = NotRead
          /\ UNCHANGED <<customers, result, pc>>
       \/ /\ customers.ok /\ aggregates.ok
          /\ result' = IF op = "evaluateSegment"
                       THEN EvaluationResult(customers, aggregates, now)
                       ELSE PreviewResult(customers, aggregates)
          /\ pc' = "done"
          /\ UNCHANGED <<customers, aggregates>>
    /\ UNCHANGED <<sessionState, dateParser, helpers, now, tenantId, filters, limit, store, op,
                   whereClause, validation, diff, previous, current>>

\* the Promise.all settles: it rejects with the first read that failed, and
\* resolves once both reads have; the function then returns its result
Return ==
    /\ pc = "reading"
    /\ op \in {"evaluateSegment", "previewSegmentCustomers"}
    /\ \/ /\ FailedRead(customers)
          /\ result' = Failed(customers.error)
       \/ /\ FailedRead(aggregates)
          /\ result' = Failed(aggregates.error)
       \/ /\ customers.ok /\ aggregates.ok
          /\ result' = IF op = "evaluateSegment"
                       THEN EvaluationResult(customers, aggregates, now)
                       ELSE PreviewResult(customers, aggregates)
    /\ pc' = "done"
    /\ UNCHANGED <<sessionState, dateParser, helpers, now, tenantId, filters, limit, store, op, whereClause,
                   customers, aggregates, validation, diff, previous, current>>

\* the engine answers the count, whose promise countMatchingCustomers returns
Count ==
    /\ pc = "reading"
    /\ op = "countMatchingCustomers"
    /\ aggregates' = count(store, whereClause)
    /\ result' = IF aggregates'.ok
                 THEN [ok |-> TRUE, count |-> aggregates'.count]
                 ELSE Failed(aggregates'.error)
    /\ pc' = "done"
    /\ UNCHANGED <<sessionState, dateParser, helpers, now, tenantId, filters, limit, store, op, whereClause,
                   customers, validation, diff, previous, current>>

\* filtersToPrismaWhere(tenantId, filters), lines 143-153
FiltersToPrismaWhere ==
    /\ whereClause = NotRun
    /\ whereClause' = filtersToPrismaWhere(tenantId, filters, now)
    /\ filters' = filtersAfter(filters, now)
    /\ UNCHANGED <<sessionState, dateParser, helpers, now, tenantId, limit, store, op, pc, customers,
                   aggregates, result, validation, diff, previous, current>>

\* validateFiltersExecutable(filters), lines 262-309
ValidateFiltersExecutable ==
    /\ validation = NotRun
    /\ validation' = validateFiltersExecutable(filters)
    /\ UNCHANGED <<sessionState, dateParser, helpers, now, tenantId, filters, limit, store, op, pc, whereClause,
                   customers, aggregates, result, diff, previous, current>>

\* diffEvaluations(previous, current), lines 318-334
DiffEvaluations ==
    /\ diff = NotRun
    /\ diff' = diffEvaluations(previous, current)
    /\ UNCHANGED <<sessionState, dateParser, helpers, now, tenantId, filters, limit, store, op, pc, whereClause,
                   customers, aggregates, result, validation, previous, current>>

\* parseRelativeDate(value), lines 302-325
ParseRelativeDate ==
    /\ resolved = NotRun
    /\ resolved' = parseRelativeDate(dateValue, now)
    /\ UNCHANGED <<sessionState, dateParser, dateValue, fieldArg, operatorArg, allowed, parsed,
                   now, tenantId, filters, limit, store, op, pc, whereClause,
                   customers, aggregates, result, validation, diff, previous,
                   current>>

\* validateOperatorForField(field, operator), lines 270-296
ValidateOperatorForField ==
    /\ allowed = NotRun
    /\ allowed' = Bool(validateOperatorForField(fieldArg, operatorArg))
    /\ UNCHANGED <<sessionState, dateParser, dateValue, resolved, fieldArg, operatorArg, parsed,
                   now, tenantId, filters, limit, store, op, pc, whereClause,
                   customers, aggregates, result, validation, diff, previous,
                   current>>

\* validateSegmentFilters(filters), lines 245-265
ValidateSegmentFilters ==
    /\ parsed = NotRun
    /\ parsed' = validateSegmentFilters(filters)
    /\ UNCHANGED <<sessionState, dateParser, dateValue, resolved, fieldArg, operatorArg, allowed,
                   now, tenantId, filters, limit, store, op, pc, whereClause,
                   customers, aggregates, result, validation, diff, previous,
                   current>>

\* the engine fails the findMany of the Promise.all
FindManyFails ==
    /\ pc = "reading"
    /\ op \in {"evaluateSegment", "previewSegmentCustomers"}
    /\ customers = NotRead
    /\ customers' = Unavailable
    /\ UNCHANGED <<sessionState, dateParser, helpers, now, tenantId, filters, limit, store, op, pc,
                   whereClause, aggregates, result, validation, diff, previous,
                   current>>

\* the engine fails the aggregate of the Promise.all
AggregateFails ==
    /\ pc = "reading"
    /\ op \in {"evaluateSegment", "previewSegmentCustomers"}
    /\ aggregates = NotRead
    /\ aggregates' = Unavailable
    /\ UNCHANGED <<sessionState, dateParser, helpers, now, tenantId, filters, limit, store, op, pc,
                   whereClause, customers, result, validation, diff, previous,
                   current>>

\* the engine fails the count, and the promise countMatchingCustomers
\* returned rejects
CountFails ==
    /\ pc = "reading"
    /\ op = "countMatchingCustomers"
    /\ aggregates' = Unavailable
    /\ result' = Failed(Unavailable.error)
    /\ pc' = "done"
    /\ UNCHANGED <<sessionState, dateParser, helpers, now, tenantId, filters, limit, store, op,
                   whereClause, customers, validation, diff, previous, current>>

\* another process inserts, updates or deletes a customer row
Write ==
    /\ \E r \in SharedPool :
           \/ store' = (store \ {q \in store : q.id = r.id}) \cup {r}
           \/ r \in store /\ store' = store \ {r}
    /\ store' # store
    /\ UNCHANGED <<sessionState, dateParser, helpers, now, tenantId, filters, limit, op, pc,
                   whereClause, customers, aggregates, result, validation, diff,
                   previous, current>>

-----------------------------------------------------------------------------
(* Session storage (unnamed/part_000) *)

\* how many hours the clock of the session storage advances
MaxTicks == 2
Shop == <<"s", "h", "o", "p">>
Token == <<"t", "o", "k">>

\* the readings of the clock, and the expiry times in use
SessionClocks == {setHours(Clock0, Clock0.h + n) : n \in 0..MaxTicks}

\* encrypt(accessToken) of lib/crypto under the key in use, a token sealed
\* under a key that is no longer in use, and decrypt, which throws on a token
\* it cannot open
encrypt(text) == [sealed |-> text, key |-> "current"]
Retired(text) == [sealed |-> text, key |-> "retired"]
decrypt(token) ==
    IF token.key = "current" THEN [t |-> "text", text |-> token.sealed]
    ELSE Throw("decrypt", token.key)

\* a row of the session table; accessToken is '' or a sealed token, expires a
\* Date or null
SessionRow(id, shop, accessToken, expires) ==
    [t |-> "row", id |-> id, shop |-> shop, accessToken |-> accessToken,
     expires |-> expires]
NoToken == [sealed |-> <<>>, key |-> "none"]
StoredTokens == {NoToken, encrypt(Token), Retired(Token)}
SessionRows(id) ==
    {SessionRow(id, Shop, token, expires) :
        token \in StoredTokens, expires \in {Null} \cup SessionClocks}

\* the tables that hold, for each id, no row or a row of that id
SessionTables ==
    {table \in [SessionIds -> {NoSession} \cup UNION {SessionRows(id) : id \in SessionIds}] :
        \A id \in SessionIds : table[id] = NoSession \/ table[id].id = id}

\* the SessionData given to storeSession: accessToken and expires are optional
SessionData(id, shop, accessToken, expires) ==
    [t |-> "session", id |-> id, shop |-> shop, accessToken |-> accessToken,
     expires |-> expires]
SessionInputs ==
    {SessionData(id, Shop, accessToken, expires) :
        id \in SessionIds,
        accessToken \in {Undefined, Str(Token)},
        expires \in {Undefined} \cup SessionClocks}

\* prisma.session.upsert: the row is created with null for an undefined
\* column, and an update leaves a column that is given as undefined as it is
upsert(table, data, token) ==
    [table EXCEPT ![data.id] =
        IF table[data.id] = NoSession
        THEN SessionRow(data.id, data.shop, token,
                        IF data.expires = Undefined THEN Null ELSE data.expires)
        ELSE [table[data.id] EXCEPT
                 !.accessToken = token,
                 !.expires = IF data.expires = Undefined THEN @ ELSE data.expires]]

\* a variant of the expiry test that takes a session as expired at its expiry
\* time
ExpiredAtExpiry(row, t) == row.expires # Null /\ DateLeq(row.expires, t)

\* line 93: session.expires && session.expires < new Date()
Expired(row, t) == row.expires # Null /\ ~DateLeq(t, row.expires)

\* lines 110-118: the SessionData loadSession returns
LoadedSession(row, accessToken) ==
    SessionData(row.id, row.shop, accessToken,
                IF row.expires = Null THEN Undefined ELSE row.expires)

\* the session table when the process starts: rows of earlier runs, some
\* with a token sealed under a key that is no longer in use
InitSession ==
    /\ dateParser \in DateParsers
    /\ NoHelperArguments
    /\ now = Clock0
    /\ tenantId = T1
    /\ filters = <<>>
    /\ store = {}
    /\ previous = <<>>
    /\ current = <<>>
    /\ op = "none"
    /\ pc = "idle"
    /\ limit = 0
    /\ whereClause = NotRun
    /\ customers = NotRead
    /\ aggregates = NotRead
    /\ result = NotRun
    /\ validation = NotRun
    /\ diff = NotRun
    /\ resolved = NotRun
    /\ allowed = NotRun
    /\ parsed = NotRun
    /\ sessions \in SessionTables
    /\ sessionId = "none"
    /\ session = NoSession

\* storeSession(sessionData), lines 29-78, called by any request
StoreSession ==
    \E data \in SessionInputs :
        /\ op' = "storeSession"
        /\ sessions' = upsert(sessions, data,
                              IF data.accessToken = Undefined THEN NoToken
                              ELSE encrypt(data.accessToken.s))
        /\ UNCHANGED <<dateParser, helpers, now, tenantId, filters, limit, store, pc,
                       whereClause, customers, aggregates, result, validation, diff,
                       previous, current, sessionId, session>>

\* loadSession(id), lines 83-86: the call and its findUnique
LoadSession ==
    \E id \in SessionIds :
        /\ pc \in {"idle", "done"}
        /\ op' = "loadSession"
        /\ sessionId' = id
        /\ session' = sessions[id]
        /\ result' = NotRun
        /\ pc' = "found"
        /\ UNCHANGED <<dateParser, helpers, now, tenantId, filters, limit, store,
                       whereClause, customers, aggregates, validation, diff, previous,
                       current, sessions>>

\* loadSession, lines 88-118: no row gives null, an expired row is to be
\* deleted, a token that cannot be decrypted gives null, and any other row is
\* returned
CheckSession ==
    /\ pc = "found"
    /\ IF session = NoSession
       THEN pc' = "done" /\ result' = Null
       ELSE IF Expired(session, now)
       THEN pc' = "deleting" /\ result' = result
       ELSE IF session.accessToken = NoToken
       THEN pc' = "done" /\ result' = LoadedSession(session, Undefined)
       ELSE IF IsThrow(decrypt(session.accessToken))
       THEN pc' = "done" /\ result' = Null
       ELSE pc' = "done"
            /\ result' = LoadedSession(session,
                                       Str(decrypt(session.accessToken).text))
    /\ UNCHANGED <<dateParser, helpers, now, tenantId, filters, limit, store, op,
                   whereClause, customers, aggregates, validation, diff, previous,
                   current, sessionState>>

\* loadSession, lines 95-96: deleteSession(id) (lines 124-135; a row that is
\* gone makes delete throw, which is caught), then null
DeleteExpired ==
    /\ pc = "deleting"
    /\ sessions' = [sessions EXCEPT ![sessionId] = NoSession]
    /\ result' = Null
    /\ pc' = "done"
    /\ UNCHANGED <<dateParser, helpers, now, tenantId, filters, limit, store, op,
                   whereClause, customers, aggregates, validation, diff, previous,
                   current, sessionId, session>>

\* deleteSession(id), lines 124-135, called by any request
DeleteSession ==
    \E id \in SessionIds :
        /\ op' = "deleteSession"
        /\ sessions' = [sessions EXCEPT ![id] = NoSession]
        /\ UNCHANGED <<dateParser, helpers, now, tenantId, filters, limit, store, pc,
                       whereClause, customers, aggregates, result, validation, diff,
                       previous, current, sessionId, session>>

\* an hour passes
Tick ==
    /\ setHours(now, now.h + 1) \in SessionClocks
    /\ now' = setHours(now, now.h + 1)
    /\ UNCHANGED <<dateParser, helpers, tenantId, filters, limit, store, op, pc,
                   whereClause, customers, aggregates, result, validation, diff,
                   previous, current, sessionState>>

NextSession ==
    \/ StoreSession
    \/ LoadSession
    \/ CheckSession
    \/ DeleteExpired
    \/ DeleteSession
    \/ Tick

\* sessions are stored, loaded and deleted while time passes
SpecSession == InitSession /\ [][NextSession]_vars

Next ==
    \/ EvaluateSegment
    \/ PreviewSegmentCustomers
    \/ CountMatchingCustomers
    \/ FindMany
    \/ Aggregate
    \/ Return
    \/ Count

NextFilter ==
    \/ FiltersToPrismaWhere
    \/ ValidateFiltersExecutable

NextDiff == DiffEvaluations

\* evaluation of a filter against a customer table no one else writes to
Spec == Init /\ [][Next]_vars
\* translation and validation of a filter
SpecFilter == InitFilter /\ [][NextFilter]_vars
\* diff of two evaluation snapshots
SpecDiff == InitDiff /\ [][NextDiff]_vars

NextDate == ParseRelativeDate

\* resolution of a date text
SpecDate == InitDate /\ [][NextDate]_vars

NextShared ==
    \/ EvaluateSegment
    \/ PreviewSegmentCustomers
    \/ CountMatchingCustomers
    \/ FindMany
    \/ Aggregate
    \/ Return
    \/ Count
    \/ Write

\* evaluation of a filter against a customer table under concurrent writes
SpecShared == InitShared /\ [][NextShared]_vars

NextFaulty ==
    \/ EvaluateSegment
    \/ PreviewSegmentCustomers
    \/ CountMatchingCustomers
    \/ FindMany
    \/ Aggregate
    \/ Return
    \/ Count
    \/ FindManyFails
    \/ AggregateFails
    \/ CountFails
    \/ FiltersToPrismaWhere
    \/ ValidateFiltersExecutable

\* evaluation of a filter with an engine that may fail a read
SpecFaulty == InitFaulty /\ [][NextFaulty]_vars

NextAdmission ==
    \/ ValidateSegmentFilters
    \/ ValidateFiltersExecutable
    \/ FiltersToPrismaWhere

\* a filter is parsed with the schema, validated and translated
SpecAdmission == InitAdmission /\ [][NextAdmission]_vars

NextSchema == ValidateSegmentFilters

\* schema validation of a filter
SpecSchema == InitSchema /\ [][NextSchema]_vars

NextOperator == ValidateOperatorForField

\* a lookup in the operator / field type compatibility table
SpecOperator == InitOperator /\ [][NextOperator]_vars

-----------------------------------------------------------------------------
(* Properties *)

\* the tenant a customer id belongs to
TenantOf(id) == (CHOOSE r \in CustomerPool : r.id = id).cols["tenantId"]
TenantRows(table, tenant) == {r \in table : r.cols["tenantId"] = Str(tenant)}

\* C1: whatever the filter holds, the predicate built for tenant T carries
\* tenantId = T at its top level, and every row findMany returns, every id
\* evaluateSegment returns, every record previewSegmentCustomers returns and
\* every row countMatchingCustomers counts belongs to T.
C1_TenantIsolation ==
    /\ whereClause.t = "where" => whereClause.tenantId = Str(tenantId)
    /\ customers.ok =>
           \A i \in DOMAIN customers.rows :
               customers.rows[i].cols["tenantId"] = Str(tenantId)
    /\ (pc = "done" /\ result.ok /\ op = "evaluateSegment") =>
           \A i \in DOMAIN result.customerIds :
               TenantOf(result.customerIds[i]) = Str(tenantId)
    /\ (pc = "done" /\ result.ok /\ op = "previewSegmentCustomers") =>
           \A i \in DOMAIN result.customers :
               TenantOf(result.customers[i].id) = Str(tenantId)
    /\ (pc = "done" /\ result.ok /\ op = "countMatchingCustomers") =>
           result.count = count(TenantRows(store, tenantId), whereClause).count

\* an evaluation returned ids although its OR group holds a condition on the
\* tenant column and the table holds a row of another tenant that satisfies
\* every group
C1_Witness ==
    /\ pc = "done" /\ op = "evaluateSegment" /\ result.ok
    /\ result.customerIds # <<>>
    /\ Len(filters) = 1 /\ filters[1].logic = "OR"
    /\ \E i \in DOMAIN filters[1].conditions : filters[1].conditions[i].field = "tenantId"
    /\ \E r \in store :
           /\ r.cols["tenantId"] # Str(tenantId)
           /\ Satisfies(r, AndOf(whereClause.AND))

\* a row satisfies a condition when it satisfies the condition's predicate
CondSat(row, c) == Satisfies(row, conditionToPrisma(c, now))
GroupSat(row, g) ==
    IF g.logic = "AND"
    THEN \A i \in DOMAIN g.conditions : CondSat(row, g.conditions[i])
    ELSE \E i \in DOMAIN g.conditions : CondSat(row, g.conditions[i])
\* the tenant's rows that satisfy every group
ExpectedRows ==
    {r \in store :
        /\ r.cols["tenantId"] = Str(tenantId)
        /\ \A g \in DOMAIN filters : GroupSat(r, filters[g])}

\* C2: the rows the predicate selects are exactly the tenant's rows that
\* satisfy every group, an AND group being satisfied by the rows that satisfy
\* all its conditions and an OR group by those that satisfy at least one.
C2_GroupComposition ==
    /\ (customers.ok /\ op = "evaluateSegment") =>
           SetOf(customers.rows) = ExpectedRows
    /\ (customers.ok /\ op = "previewSegmentCustomers") =>
           /\ SetOf(customers.rows) \subseteq ExpectedRows
           /\ Len(customers.rows) =
                  IF limit < Cardinality(ExpectedRows) THEN limit
                  ELSE Cardinality(ExpectedRows)
    /\ aggregates.ok => aggregates.count = Cardinality(ExpectedRows)

\* an OR group of two conditions ahead of an AND group: a returned row
\* satisfies one condition of the OR group only, and a row of the tenant that
\* satisfies the OR group is kept out by the other group
C2_Witness ==
    /\ op = "evaluateSegment" /\ customers.ok
    /\ Len(filters) = 2
    /\ filters[1].logic = "OR" /\ Len(filters[1].conditions) = 2
    /\ filters[2].logic = "AND"
    /\ \E i \in DOMAIN customers.rows :
           CondSat(customers.rows[i], filters[1].conditions[1])
               # CondSat(customers.rows[i], filters[1].conditions[2])
    /\ \E r \in store :
           /\ r.cols["tenantId"] = Str(tenantId)
           /\ GroupSat(r, filters[1])
           /\ r \notin SetOf(customers.rows)

Occurs(id, ids) == \E j \in DOMAIN ids : ids[j] = id
\* the subsequence of ids at the positions keep
SubsequenceAt(ids, keep) ==
    [i \in 1..Cardinality(keep) |->
        ids[CHOOSE j \in keep : Cardinality({k \in keep : k <= j}) = i]]

\* C3: added is the subsequence of current of the ids that do not occur in
\* previous, removed the subsequence of previous of the ids that do not occur
\* in current, unchanged the subsequence of current of the ids that occur in
\* previous; [A,B,C] against [B,C,D] gives [D], [A] and [B,C].
C3_DiffMembership ==
    diff # NotRun =>
        /\ diff.added =
               SubsequenceAt(current,
                   {j \in DOMAIN current : ~Occurs(current[j], previous)})
        /\ diff.removed =
               SubsequenceAt(previous,
                   {j \in DOMAIN previous : ~Occurs(previous[j], current)})
        /\ diff.unchanged =
               SubsequenceAt(current,
                   {j \in DOMAIN current : Occurs(current[j], previous)})
        /\ (previous = <<"A", "B", "C">> /\ current = <<"B", "C", "D">>) =>
               diff = [added |-> <<"D">>, removed |-> <<"A">>,
                       unchanged |-> <<"B", "C">>]

C3_Witness ==
    /\ diff # NotRun
    /\ previous = <<"A", "B", "C">> /\ current = <<"B", "C", "D">>
    /\ diff.added = <<"D">> /\ diff.removed = <<"A">>
    /\ diff.unchanged = <<"B", "C">>

\* C4: the diff of a snapshot with itself has nothing added, nothing removed
\* and the snapshot's own list, duplicates included, unchanged.
C4_DiffOfSelf ==
    (diff # NotRun /\ previous = current) =>
        /\ diff.added = <<>>
        /\ diff.removed = <<>>
        /\ diff.unchanged = current

\* a list with a repeated id was diffed with itself
C4_Witness ==
    /\ diff # NotRun
    /\ previous = <<"A", "A", "B">> /\ current = previous
    /\ diff.unchanged = <<"A", "A", "B">>

\* the bound of a between as the predicate holds it: a date text on a date
\* field stands for the date it resolves to
Resolved(field, v) ==
    IF FieldType(field) = "date" /\ IsString(v)
    THEN parseRelativeDate(v.s, now)
    ELSE v
InRange(cv, lo, hi) == cv # Null /\ ValueLeq(lo, cv) /\ ValueLeq(cv, hi)

\* C5: a between with a value [a, b] translates without an error, and a row
\* satisfies the predicate exactly when its column is >= a and <= b.
C5_BetweenInclusive ==
    /\ (/\ whereClause # NotRun
        /\ \A g \in DOMAIN filters : \A i \in DOMAIN filters[g].conditions :
               LET c == filters[g].conditions[i]
               IN c.operator = "between" /\ IsArray(c.value) /\ Len(c.value.items) = 2)
           => whereClause.t = "where"
    /\ whereClause.t = "where" =>
           \A g \in DOMAIN filters : \A i \in DOMAIN filters[g].conditions :
               LET c == filters[g].conditions[i]
                   cl == whereClause.AND[g].clauses[i]
               IN (/\ c.operator = "between"
                   /\ IsArray(c.value) /\ Len(c.value.items) = 2
                   /\ ClauseAccepted(cl))
                  => \A r \in ProbeRows :
                         Satisfies(r, cl) <=>
                             InRange(r.cols[c.field],
                                     Resolved(c.field, c.value.items[1]),
                                     Resolved(c.field, c.value.items[2]))

\* totalSpent between [1, 3] was translated: the row with 1 is in, the row
\* with 4 is out
C5_Witness ==
    /\ whereClause.t = "where"
    /\ filters = <<Group("AND", <<Condition("totalSpent", "between",
                                            Arr(<<Num(1), Num(3)>>))>>)>>
    /\ \E r \in ProbeRows :
           r.cols["totalSpent"] = Num(1) /\ Satisfies(r, whereClause.AND[1].clauses[1])
    /\ \E r \in ProbeRows :
           r.cols["totalSpent"] = Num(4) /\ ~Satisfies(r, whereClause.AND[1].clauses[1])

BetweenArityError(field) ==
    [error |-> "'between' requires array of 2 values", field |-> field]
HasError(e) == \E k \in DOMAIN validation.errors : validation.errors[k] = e
WellFormedPair(v) == IsArray(v) /\ Len(v.items) = 2

\* C6: a between on a known field whose value is not an array of exactly two
\* elements makes the filter invalid, with the arity message for that field.
C6_BetweenArityRejected ==
    validation # NotRun =>
        \A g \in DOMAIN filters : \A i \in DOMAIN filters[g].conditions :
            LET c == filters[g].conditions[i]
            IN (/\ c.field \in FilterableField
                /\ c.operator = "between"
                /\ ~WellFormedPair(c.value))
               => ~validation.valid /\ HasError(BetweenArityError(c.field))

\* a between with three values was validated
C6_Witness ==
    /\ validation # NotRun
    /\ filters = <<Group("AND", <<Condition("totalSpent", "between",
                                            Arr(<<Num(1), Num(2), Num(3)>>))>>)>>
    /\ validation = [valid |-> FALSE, errors |-> <<BetweenArityError("totalSpent")>>]

\* C7: contains on a field that is not a string field, and gt / gte / lt / lte
\* on a boolean or enum field, are reported as validation errors.
C7_OperatorTypeErrors ==
    validation # NotRun =>
        \A g \in DOMAIN filters : \A i \in DOMAIN filters[g].conditions :
            LET c == filters[g].conditions[i]
            IN /\ (/\ c.field \in FilterableField
                   /\ c.operator = "contains"
                   /\ FieldType(c.field) # "string")
                  => /\ ~validation.valid
                     /\ HasError([error |-> "'contains' only valid for string fields",
                                  field |-> c.field])
               /\ (/\ c.operator \in {"gt", "gte", "lt", "lte"}
                   /\ FieldType(c.field) \in {"boolean", "enum"})
                  => /\ ~validation.valid
                     /\ HasError([error |-> "only valid for number/date fields",
                                  field |-> c.field, operator |-> c.operator])

\* gt on the enum field was validated
C7_Witness ==
    /\ validation # NotRun
    /\ filters = <<Group("AND", <<Condition("rfmSegment", "gt", Str(<<"a">>))>>)>>
    /\ ~validation.valid
    /\ Len(validation.errors) = 1

\* C8: every ordering operator, between included, applied to a string,
\* boolean or enum field makes the filter invalid.
C8_OrderingOperatorsRejected ==
    validation # NotRun =>
        \A g \in DOMAIN filters : \A i \in DOMAIN filters[g].conditions :
            LET c == filters[g].conditions[i]
            IN (/\ c.operator \in {"gt", "gte", "lt", "lte", "between"}
                /\ FieldType(c.field) \in {"string", "boolean", "enum"})
               => ~validation.valid

\* the conditions of a filter, group after group
ConditionsOf(fs) == Flatten([g \in DOMAIN fs |-> fs[g].conditions])
\* a condition one of the validator's rules is written against
Violates(c) ==
    \/ c.field \notin FilterableField
    \/ c.operator = "between" /\ ~WellFormedPair(c.value)
    \/ c.operator \in {"in", "notIn"} /\ ~IsArray(c.value)
    \/ c.operator = "contains" /\ FieldType(c.field) # "string"
    \/ c.operator \in {"gt", "gte", "lt", "lte"} /\ FieldType(c.field) \notin {"number", "date"}

\* C9: a filter with an unknown field and a between of the wrong arity gets
\* both messages, and errors holds one message for each violating condition
\* of each group.
C9_ErrorsAccumulate ==
    validation # NotRun =>
        LET cs == ConditionsOf(filters)
        IN /\ \A p \in DOMAIN cs : \A q \in DOMAIN cs :
                  (/\ cs[p].field \notin FilterableField
                   /\ cs[q].field \in FilterableField
                   /\ cs[q].operator = "between"
                   /\ ~WellFormedPair(cs[q].value))
                  => /\ HasError([error |-> "Unknown field", field |-> cs[p].field])
                     /\ HasError(BetweenArityError(cs[q].field))
           /\ Len(validation.errors) = Cardinality({p \in DOMAIN cs : Violates(cs[p])})
           /\ \A p \in DOMAIN cs :
                  Violates(cs[p]) =>
                      \E k \in DOMAIN validation.errors :
                          validation.errors[k].field = cs[p].field

\* an unknown field in the first group and a between of one value in the
\* second were validated in one call
C9_Witness ==
    /\ validation # NotRun
    /\ Len(filters) = 2
    /\ filters[1].conditions = <<Condition("nickname", "eq", Str(<<"a">>))>>
    /\ filters[2].conditions = <<Condition("totalSpent", "between", Arr(<<Num(1)>>))>>
    /\ validation.errors = <<[error |-> "Unknown field", field |-> "nickname"],
                             BetweenArityError("totalSpent")>>

\* C10: isNull gives "field IS NULL" and isNotNull "field IS NOT NULL"
\* whatever value is supplied; the value is not parsed and raises no error.
C10_NullChecksIgnoreValue ==
    whereClause # NotRun =>
        /\ (\A g \in DOMAIN filters : \A i \in DOMAIN filters[g].conditions :
                filters[g].conditions[i].operator \in {"isNull", "isNotNull"})
           => whereClause.t = "where"
        /\ whereClause.t = "where" =>
               \A g \in DOMAIN filters : \A i \in DOMAIN filters[g].conditions :
                   LET c == filters[g].conditions[i]
                       cl == whereClause.AND[g].clauses[i]
                   IN /\ c.operator = "isNull" =>
                          cl = Leaf(c.field, "equals", Null) /\ parseCalls(c) = 0
                      /\ c.operator = "isNotNull" =>
                          cl = Leaf(c.field, "not", Null) /\ parseCalls(c) = 0

\* isNull on a date field came with a malformed date text
C10_Witness ==
    /\ filters = <<Group("AND", <<Condition("lastOrderDate", "isNull", Str(Malformed))>>)>>
    /\ whereClause = [t |-> "where", tenantId |-> Str(tenantId),
                      AND |-> <<AndOf(<<Leaf("lastOrderDate", "equals", Null)>>)>>]


\* days from 1 January 1970 to 1 January of year y
DaysBeforeYear(y) ==
    365 * (y - 1970) + ((y - 1969) \div 4) - ((y - 1901) \div 100) + ((y - 1601) \div 400)
\* days from 1 January of year y to the first of month mo (0-based)
DaysBeforeMonth(y, mo) ==
    <<0, 31, 59, 90, 120, 151, 181, 212, 243, 273, 304, 334>>[mo + 1]
        + (IF mo >= 2 /\ IsLeap(y) THEN 1 ELSE 0)
\* hours from 1 January 1970 00:00 to a calendar date
HourCount(dt) ==
    24 * (DaysBeforeYear(dt.y) + DaysBeforeMonth(dt.y, dt.mo) + dt.d - 1) + dt.h
\* a Date that names a real day and hour
WellFormedDate(dt) ==
    /\ dt # InvalidDate
    /\ dt.mo \in 0..11
    /\ dt.d \in 1..DaysInMonth(dt.y, dt.mo)
    /\ dt.h \in 0..23
\* the first of the month that lies n months after the month of t
FirstOfMonthAfter(t, n) ==
    LET months == 12 * t.y + t.mo + n
    IN DateOf(months \div 12, months % 12, 1, 0)

\* C11: for every integer N and unit u, parseRelativeDate("<N><u>") at time T
\* is T plus N days (d), T plus N hours (h), or, for m, the day and hour of T
\* counted from the first of the month N months away, so that a day the
\* target month does not have runs over into the following month.
C11_RelativeDateArithmetic ==
    resolved # NotRun =>
        \A n \in 0..MaxAmount : \A sign \in {1, -1} :
            LET amount == sign * n
                numeral == (IF sign = -1 THEN <<"-">> ELSE <<>>) \o Numeral(n)
            IN /\ dateValue = numeral \o <<"d">> =>
                      /\ WellFormedDate(resolved)
                      /\ HourCount(resolved) = HourCount(now) + 24 * amount
               /\ dateValue = numeral \o <<"h">> =>
                      /\ WellFormedDate(resolved)
                      /\ HourCount(resolved) = HourCount(now) + amount
               /\ dateValue = numeral \o <<"m">> =>
                      /\ WellFormedDate(resolved)
                      /\ HourCount(resolved) =
                             HourCount(FirstOfMonthAfter(now, amount))
                                 + 24 * (now.d - 1) + now.h

\* "-1m" was resolved on 31 March 2024 10:00 and gave 2 March 2024 10:00
C11_Witness ==
    /\ dateValue = <<"-", "1", "m">>
    /\ now = DateOf(2024, 2, 31, 10)
    /\ resolved = DateOf(2024, 2, 2, 10)

\* C12: a text that matches neither the relative pattern nor the ISO
\* timestamp format resolves to an invalid date.
C12_MalformedGivesInvalidDate ==
    (/\ resolved # NotRun
     /\ ~RelativeMatch(dateValue)
     /\ ~IsoShape(dateValue))
    => resolved = InvalidDate

\* C13: previewSegmentCustomers with limit N returns at most N records, the
\* highest-spend matching ones in non-increasing order of totalSpent, and
\* its totalCount and estimatedRevenue are the count and the sum of
\* totalSpent over all matching records whatever N is (0 when none matches).
C13_PreviewPage ==
    (pc = "done" /\ op = "previewSegmentCustomers" /\ result.ok) =>
        LET page == result.customers
            returned == {page[i].id : i \in DOMAIN page}
        IN /\ Len(page) <= limit
           /\ Len(page) = IF limit < Cardinality(ExpectedRows) THEN limit
                          ELSE Cardinality(ExpectedRows)
           /\ Cardinality(returned) = Len(page)
           /\ \A i \in DOMAIN page :
                  \E r \in ExpectedRows :
                      r.id = page[i].id /\ r.cols["totalSpent"] = Num(page[i].totalSpent)
           /\ \A i \in DOMAIN page : \A j \in DOMAIN page :
                  i < j => page[i].totalSpent >= page[j].totalSpent
           /\ \A r \in ExpectedRows :
                  r.id \notin returned =>
                      \A i \in DOMAIN page : r.cols["totalSpent"].n <= page[i].totalSpent
           /\ result.totalCount = Cardinality(ExpectedRows)
           /\ result.estimatedRevenue = SumSpent(ExpectedRows)
           /\ ExpectedRows = {} => result.estimatedRevenue = 0

\* a preview of one record out of three matching ones: the record with the
\* highest spend, and the totals of all three
C13_Witness ==
    /\ pc = "done" /\ op = "previewSegmentCustomers" /\ result.ok
    /\ limit = 1
    /\ Cardinality(ExpectedRows) = 3
    /\ Len(result.customers) = 1
    /\ result.customers[1].totalSpent = 7
    /\ result.totalCount = 3
    /\ result.estimatedRevenue = 12

StringFields == {"email", "firstName", "lastName", "phone"}
NumberFields ==
    {"totalSpent", "ordersCount", "avgOrderValue", "daysSinceLastOrder",
     "recencyScore", "frequencyScore", "monetaryScore"}
DateFields == {"lastOrderDate", "firstOrderDate", "shopifyCreatedAt", "createdAt"}
BooleanFields == {"isHighValue", "isChurnRisk", "hasAbandonedCart"}
EnumFields == {"rfmSegment"}
UniversalOperators == {"eq", "neq", "in", "notIn", "isNull", "isNotNull"}
OrderingOperators == {"gt", "gte", "lt", "lte", "between"}

C15_UnknownFieldRejected ==
    (/\ whereClause # NotRun
     /\ \E g \in DOMAIN filters : \E i \in DOMAIN filters[g].conditions :
            filters[g].conditions[i].field \notin DOMAIN FieldTypeMap)
    => IsThrow(whereClause)

\* C16: an in or notIn on a known field whose value is not an array, or is an
\* empty array, makes validateFiltersExecutable return valid = false.
C16_EmptyListRejected ==
    validation # NotRun =>
        \A g \in DOMAIN filters : \A i \in DOMAIN filters[g].conditions :
            LET c == filters[g].conditions[i]
            IN (/\ c.field \in FilterableField
                /\ c.operator \in {"in", "notIn"}
                /\ (~IsArray(c.value) \/ c.value = Arr(<<>>)))
               => ~validation.valid

\* values of each shape the value union knows
WellShapedValues ==
    {Num(1), Bool(TRUE), Str(<<"a">>), Str(Iso), Str(Minus1d),
     Arr(<<Num(1), Num(3)>>), Arr(<<Str(Iso), Str(Minus1m)>>),
     Arr(<<Str(<<"a">>)>>), Arr(<<Num(1), Num(2), Num(3)>>),
     Arr(<<Str(Loyal), Str(Lost)>>)}
\* the filter is a single group, AND or OR, of a single condition
SingleCondition(fs) ==
    Len(fs) = 1 /\ fs[1].logic \in {"AND", "OR"} /\ Len(fs[1].conditions) = 1

\* C17: the schema rejects every condition whose operator is not isNull or
\* isNotNull and whose value is undefined or null, and accepts a condition
\* with isNull or isNotNull whether its value is absent, null or well shaped.
C17_ValueRequired ==
    parsed # NotRun =>
        /\ \A g \in DOMAIN filters : \A i \in DOMAIN filters[g].conditions :
               LET c == filters[g].conditions[i]
               IN (/\ c.operator \notin {"isNull", "isNotNull"}
                   /\ c.value \in {Undefined, Null})
                  => ~parsed.success
        /\ (/\ SingleCondition(filters)
            /\ filters[1].conditions[1].field \in FilterableField
            /\ filters[1].conditions[1].operator \in {"isNull", "isNotNull"}
            /\ filters[1].conditions[1].value
                   \in {Undefined, Null} \cup WellShapedValues)
           => parsed = [success |-> TRUE, data |-> filters]

\* eq with a null value on a known field was parsed and refused with the
\* message of the refinement
C17_Witness ==
    /\ filters = <<Group("AND", <<Condition("totalSpent", "eq", Null)>>)>>
    /\ parsed = [success |-> FALSE,
                 error |-> <<Issue(<<"groups", 0, "conditions", 0>>,
                                   "Value is required for this operator")>>]

\* C18: validateSegmentFilters rejects every condition whose value is an array
\* of more than 100 elements, whatever the type of the elements.
C18_ArraysBounded ==
    parsed # NotRun =>
        \A g \in DOMAIN filters : \A i \in DOMAIN filters[g].conditions :
            LET c == filters[g].conditions[i]
            IN (IsArray(c.value) /\ Len(c.value.items) > MaxArrayLength)
               => ~parsed.success

\* the translation has no predicate for the condition
Untranslatable(c) ==
    \/ c.operator = "between" /\ ~WellFormedPair(c.value)
    \/ c.operator \notin FilterOperator

\* C19: when a filter holds a between whose value is not a sequence of two,
\* or an operator outside the closed set, evaluateSegment,
\* countMatchingCustomers and previewSegmentCustomers fail with the error of
\* the translation, and no read was issued to the engine.
C19_TranslationFailsBeforeReads ==
    (/\ pc # "idle"
     /\ \E g \in DOMAIN filters : \E i \in DOMAIN filters[g].conditions :
            Untranslatable(filters[g].conditions[i]))
    => /\ pc = "done"
       /\ IsThrow(whereClause)
       /\ whereClause.message \in {"Invalid between value for field", "Unsupported operator"}
       /\ result = [ok |-> FALSE, error |-> whereClause]
       /\ customers = NotRead
       /\ aggregates = NotRead

\* a preview of a filter whose last condition is a between of three values
\* failed with the error of the translation
C19_Witness ==
    /\ pc = "done" /\ op = "previewSegmentCustomers"
    /\ Len(filters) = 2
    /\ filters[2].conditions[2] =
           Condition("totalSpent", "between", Arr(<<Num(1), Num(2), Num(3)>>))
    /\ result = [ok |-> FALSE,
                 error |-> Throw("Invalid between value for field", "totalSpent")]
    /\ customers = NotRead /\ aggregates = NotRead

\* C20: the two reads of evaluateSegment are answered separately, each
\* from the table as it is when that read is answered, and a write between
\* them is possible; a result whose customerIds.length differs from its
\* totalCount is therefore reachable.
C20_ReadsNotFromOneSnapshot ==
    [][/\ (customers = NotRead /\ customers' # NotRead) =>
              customers' = IF op = "evaluateSegment"
                           THEN findMany(store, whereClause)
                           ELSE findManyTop(store, whereClause, limit)
       /\ (aggregates = NotRead /\ aggregates' # NotRead /\ op # "countMatchingCustomers") =>
              aggregates' = aggregate(store, whereClause)
       /\ (pc = "reading" /\ pc' = "done" /\ op = "evaluateSegment" /\ result'.ok) =>
              /\ Len(result'.customerIds) = Len(customers.rows)
              /\ result'.totalCount = aggregates.count
              /\ result'.totalSpent = SumOrZero(aggregates.sum)]_vars

\* an evaluation returned one id with a count of two: a matching customer
\* was written between the id read and the aggregate read
C20_Witness ==
    /\ pc = "done" /\ op = "evaluateSegment" /\ result.ok
    /\ Len(result.customerIds) # result.totalCount
    /\ Len(result.customerIds) = 1
    /\ result.totalCount = 2

\* C21: when a read of evaluateSegment fails, evaluateSegment fails with the
\* error of a failed read and returns no result, not a partial one; a read
\* that was answered is not issued again, and a call that ended is not run
\* again.
C21_NoRetry ==
    [][/\ (/\ pc = "reading" /\ pc' = "done"
           /\ op = "evaluateSegment"
           /\ (FailedRead(customers) \/ FailedRead(aggregates)))
          => /\ DOMAIN result' = {"ok", "error"}
             /\ ~result'.ok
             /\ \/ FailedRead(customers) /\ result'.error = customers.error
                \/ FailedRead(aggregates) /\ result'.error = aggregates.error
       /\ customers # NotRead => customers' = customers
       /\ aggregates # NotRead => aggregates' = aggregates
       /\ pc = "done" => (pc' = "done" /\ result' = result)]_vars

\* the id read was answered, the aggregate read failed, and evaluateSegment
\* failed with the error of the aggregate read
C21_Witness ==
    /\ pc = "done" /\ op = "evaluateSegment"
    /\ customers.ok
    /\ aggregates = Unavailable
    /\ result = [ok |-> FALSE, error |-> Unavailable.error]

\* C22: no step of filtersToPrismaWhere, evaluateSegment,
\* countMatchingCustomers, previewSegmentCustomers or
\* validateFiltersExecutable, whether it returns or fails, changes the filters
\* it was given (the date strings and arrays it resolved included) or writes a
\* customer record.
C22_ArgumentsAndStoreKept == [][filters' = filters /\ store' = store]_vars

\* a call ended over a filter whose date strings were resolved into the
\* predicate, and the filter still holds the strings
C22_Witness ==
    /\ pc = "done" /\ result.ok
    /\ validation # NotRun
    /\ \E g \in DOMAIN filters : \E n \in DOMAIN filters[g].conditions :
          LET c == filters[g].conditions[n]
          IN /\ FieldType(c.field) = "date"
             /\ IsArray(c.value)
             /\ \A i \in DOMAIN c.value.items : IsString(c.value.items[i])
             /\ processedValue(c, now) # c.value

\* the values the leaves of a translated condition compare with
LeafValues(clause) ==
    IF clause.t = "leaf" THEN {clause.value}
    ELSE {clause.clauses[i].value : i \in DOMAIN clause.clauses}

\* the value is an invalid Date, or an array that holds one
HoldsInvalidDate(v) ==
    \/ v.k = "date" /\ ~v.valid
    \/ IsArray(v) /\ \E i \in DOMAIN v.items :
                        v.items[i].k = "date" /\ ~v.items[i].valid

\* some leaf of the predicate compares with an invalid Date
InvalidDateInPredicate(where) ==
    \E g \in DOMAIN where.AND : \E n \in DOMAIN where.AND[g].clauses :
        \E v \in LeafValues(where.AND[g].clauses[n]) : HoldsInvalidDate(v)

\* some condition compares a date field with a string that is neither a
\* relative expression nor an ISO-8601 timestamp
HasMalformedDate(fs) ==
    \E g \in DOMAIN fs : \E n \in DOMAIN fs[g].conditions :
        LET c == fs[g].conditions[n]
        IN /\ c.field \in FilterableField
           /\ FieldTypeMap[c.field] = "date"
           /\ c.operator \in FilterOperator \ {"isNull", "isNotNull"}
           /\ IsString(c.value)
           /\ ~RelativeMatch(c.value.s)
           /\ ~IsoShape(c.value.s)

\* C23: a filter with a condition that compares a date field with a string
\* that is neither a relative expression nor an ISO-8601 timestamp is flagged
\* invalid by validateSegmentFilters or by validateFiltersExecutable, and the
\* predicate of a filter both accept holds no invalid Date.
C23_MalformedDatesFlagged ==
    (parsed # NotRun /\ validation # NotRun /\ whereClause # NotRun)
    => /\ HasMalformedDate(filters) => (~parsed.success \/ ~validation.valid)
       /\ (parsed.success /\ validation.valid /\ ~IsThrow(whereClause))
          => ~InvalidDateInPredicate(whereClause)

\* C24: a relative expression with an explicit plus sign, such as "+5d", is
\* resolved by parseRelativeDate to the reading plus N units, as the unsigned
\* form is, and is accepted by the DateFilterValue schema.
C24_PlusSignAccepted ==
    resolved # NotRun =>
        \A n \in 0..MaxAmount : \A u \in {"d", "h", "m"} :
            dateValue = <<"+">> \o Numeral(n) \o <<u>> =>
                /\ resolved = parseRelativeDate(Numeral(n) \o <<u>>, now)
                /\ DateFilterValue(Str(dateValue))

\* C25: with no write between the reads, an EvaluationResult has totalCount
\* equal to the length of customerIds, customerIds holds the id of each
\* matching customer of the tenant exactly once and no other id, totalSpent is
\* the sum of totalSpent over those customers, and both totals are 0 when no
\* customer matches.
C25_ResultConsistent ==
    (pc = "done" /\ op = "evaluateSegment" /\ result.ok) =>
        /\ result.totalCount = Len(result.customerIds)
        /\ \A i, j \in DOMAIN result.customerIds :
               result.customerIds[i] = result.customerIds[j] => i = j
        /\ SetOf(result.customerIds) = {r.id : r \in ExpectedRows}
        /\ result.totalSpent = SumSpent(ExpectedRows)
        /\ ExpectedRows = {} => (result.totalCount = 0 /\ result.totalSpent = 0)

\* an evaluation returned two ids of the tenant's three customers, and a
\* total of 12
C25_Witness ==
    /\ pc = "done" /\ op = "evaluateSegment" /\ result.ok
    /\ Cardinality(TenantRows(store, tenantId)) = 3
    /\ Len(result.customerIds) = 2
    /\ result.totalCount = 2
    /\ result.totalSpent = 12

\* the list holds no id twice
NoDuplicates(ids) == \A i, j \in DOMAIN ids : ids[i] = ids[j] => i = j

\* C26: the diff partitions its inputs: every element of current is in exactly
\* one of added and unchanged and the lengths of the two add up to the length
\* of current; no id is both added and removed, nor both removed and
\* unchanged; and when neither list holds an id twice, the lengths of removed
\* and unchanged add up to the length of previous.
C26_DiffPartitions ==
    diff # NotRun =>
        /\ \A i \in DOMAIN current :
               Occurs(current[i], diff.added) # Occurs(current[i], diff.unchanged)
        /\ Len(diff.added) + Len(diff.unchanged) = Len(current)
        /\ SetOf(diff.added) \cap SetOf(diff.removed) = {}
        /\ SetOf(diff.removed) \cap SetOf(diff.unchanged) = {}
        /\ (NoDuplicates(previous) /\ NoDuplicates(current)) =>
               Len(diff.removed) + Len(diff.unchanged) = Len(previous)

\* a current list that holds an id of previous twice was diffed: the id is
\* unchanged twice, and previous is not the sum of removed and unchanged
C26_Witness ==
    /\ diff # NotRun
    /\ previous = <<"A", "B", "C">> /\ current = <<"B", "B", "D">>
    /\ diff.added = <<"D">>
    /\ diff.removed = <<"A", "C">>
    /\ diff.unchanged = <<"B", "B">>

\* the value has the shape the operator takes: an array of two for between,
\* an array for in and notIn
RightShape(c) ==
    /\ c.operator = "between" => (IsArray(c.value) /\ Len(c.value.items) = 2)
    /\ c.operator \in {"in", "notIn"} => IsArray(c.value)

\* C27: for a known field, an operator of the closed set and a value of the
\* shape the operator takes, validateFiltersExecutable reports no error for
\* the condition exactly when validateOperatorForField(field, operator) is
\* true.
C27_ChecksAgree ==
    (validation # NotRun /\ SingleCondition(filters)) =>
        LET c == filters[1].conditions[1]
        IN (/\ c.field \in FilterableField
            /\ c.operator \in FilterOperator
            /\ RightShape(c))
           => (validation.errors = <<>>
                  <=> validateOperatorForField(c.field, c.operator))

\* every operator of the filter is one of the closed set
OperatorsKnown(fs) ==
    \A g \in DOMAIN fs : \A n \in DOMAIN fs[g].conditions :
        fs[g].conditions[n].operator \in FilterOperator

\* C28: for a filter that validateFiltersExecutable reports valid and whose
\* operators are all of the closed set, filtersToPrismaWhere returns a
\* predicate: it raises neither the invalid-between nor the
\* unsupported-operator error.
C28_ValidTranslates ==
    (/\ validation # NotRun /\ whereClause # NotRun
     /\ validation.valid
     /\ OperatorsKnown(filters))
    => /\ ~IsThrow(whereClause)
       /\ whereClause.t = "where"
       /\ Len(whereClause.AND) = Len(filters)

\* a valid between on a date field was translated into a predicate with the
\* two bounds
C28_Witness ==
    /\ validation # NotRun /\ validation.valid
    /\ SingleCondition(filters)
    /\ filters[1].conditions[1].field = "lastOrderDate"
    /\ filters[1].conditions[1].operator = "between"
    /\ whereClause # NotRun /\ whereClause.t = "where"
    /\ whereClause.AND[1].clauses[1].t = "AND"
    /\ Len(whereClause.AND[1].clauses[1].clauses) = 2

\* the message a condition that breaks a rule is reported with
MessageOf(c) ==
    IF c.field \notin FilterableField THEN "Unknown field"
    ELSE CASE c.operator = "between" -> "'between' requires array of 2 values"
           [] c.operator \in {"in", "notIn"} -> "requires array value"
           [] c.operator = "contains" -> "'contains' only valid for string fields"
           [] OTHER -> "only valid for number/date fields"

\* C29: validateFiltersExecutable returns valid = true exactly when errors
\* is empty; errors holds one message for each condition that breaks a rule
\* and none for the others, so it is no longer than the list of conditions; a
\* condition with an unknown field gets the unknown-field message only; and
\* the messages come in group order, then condition order.
C29_ErrorsInOrder ==
    validation # NotRun =>
        LET cs == ConditionsOf(filters)
            bad == SubsequenceAt(cs, {p \in DOMAIN cs : Violates(cs[p])})
        IN /\ validation.valid <=> validation.errors = <<>>
           /\ Len(validation.errors) <= Len(cs)
           /\ Len(validation.errors) = Len(bad)
           /\ \A k \in DOMAIN validation.errors :
                  /\ validation.errors[k].field = bad[k].field
                  /\ validation.errors[k].error = MessageOf(bad[k])

\* the two conditions of a group each broke a rule, the second by its unknown
\* field, and the two messages came in the order of the conditions
C29_Witness ==
    /\ validation # NotRun /\ ~validation.valid
    /\ Len(filters) = 1
    /\ filters[1].conditions = <<Condition("totalSpent", "contains", Str(<<"a">>)),
                                 Condition("nickname", "eq", Str(<<"a">>))>>
    /\ validation.errors =
           <<[error |-> "'contains' only valid for string fields", field |-> "totalSpent"],
             [error |-> "Unknown field", field |-> "nickname"]>>

\* the row loadSession read has an expiry time earlier than the clock
ReadExpired ==
    /\ session # NoSession
    /\ session.expires # Null
    /\ session.expires # now
    /\ DateLeq(session.expires, now)

\* the SessionData of the row loadSession read, with the token in clear
DataOfRead ==
    SessionData(session.id, session.shop,
                IF session.accessToken = NoToken THEN Undefined
                ELSE Str(session.accessToken.sealed),
                IF session.expires = Null THEN Undefined ELSE session.expires)

\* loadSession of an expired row returns no data, deletes the row of that id
\* and returns null; loadSession of an id without a row returns null; and a
\* row comes into the table by storeSession only
ExpiredIsDeleted ==
    /\ (pc = "found" /\ pc' # "found" /\ ReadExpired)
       => (pc' = "deleting" /\ result' = NotRun /\ sessions' = sessions)
    /\ (pc = "deleting" /\ pc' # "deleting")
       => /\ pc' = "done" /\ result' = Null
          /\ sessions' = [sessions EXCEPT ![sessionId] = NoSession]
    /\ (pc = "found" /\ pc' # "found" /\ session = NoSession)
       => (pc' = "done" /\ result' = Null /\ sessions' = sessions)
    /\ (pc # "found" /\ pc' = "found") => session' = sessions[sessionId']
    /\ \A id \in SessionIds :
           (sessions[id] = NoSession /\ sessions'[id] # NoSession)
           => op' = "storeSession"

====
